---- MODULE Spec2Model ----
(***************************************************************************)
(* Workspace Automation (Google Apps Script): the edit trigger, the        *)
(* lifecycle processors and the Gmail / Calendar gateways of Code.gs,      *)
(* Triggers.gs and Notifications.gs, as a state machine over the three     *)
(* sheets (Usuarios, Configuración, RegistroDeEventos), the mailbox and    *)
(* the calendar.                                                           *)
(*                                                                         *)
(* JavaScript values are tagged records [t, v]: strings are sequences of   *)
(* tokens (" " is a whitespace character, any other token a run of         *)
(* non-blank text), booleans, dates (hours since the epoch) and null.  A   *)
(* function of the script is an operator from a world record w (the        *)
(* sheets, the mailbox, the calendar, the trace of the running invocation  *)
(* and whether an exception is propagating) to the world it leaves behind. *)
(* Sheet names are written without accents.                                *)
(***************************************************************************)
EXTENDS Integers, Sequences, FiniteSets, TLC

VARIABLES
  sheets,    \* the sheets of the spreadsheet that exist
  usuarios,  \* the data rows of Usuarios: row -> its seven cells
  config,    \* the parameters of the sheet Configuracion
  audit,     \* the rows of RegistroDeEventos
  mails,     \* the mails GmailApp has taken
  events,    \* the events created in the calendar
  now,       \* the clock (hours)
  nInv,      \* invocations so far
  stamped,   \* the rows whose dateRegistered cell holds a stamp of processNewUser
  last,      \* the last invocation
  running    \* the invocations that run side by side, each with what it has read

vars == <<sheets, usuarios, config, audit, mails, events, now, nInv, stamped, last, running>>

-----------------------------------------------------------------------------
(* Bounds of the model *)

\* last row of the Usuarios sheet (row 1 is the header, rows 2..MaxRow are data)
MaxRow == 2
\* number of trigger / entry point invocations in one behaviour
MaxInv == 2
\* number of data rows of the sheet the daily sweep scans
MaxUsers == 2

Rows == 2..MaxRow

-----------------------------------------------------------------------------
(* JavaScript values *)

St(s) == [t |-> "str", v |-> s]
B(b) == [t |-> "bool", v |-> b]
D(n) == [t |-> "date", v |-> n]
Null == [t |-> "null", v |-> 0]
Empty == St(<<>>)

\* a === b
StrictEq(a, b) == a.t = b.t /\ a.v = b.v

\* the value as a condition: '' and false and null are falsy, a Date is truthy
Truthy(x) ==
  CASE x.t = "str" -> Len(x.v) > 0
    [] x.t = "bool" -> x.v
    [] x.t = "date" -> TRUE
    [] OTHER -> FALSE

\* x.toString()
JsToString(x) ==
  CASE x.t = "str" -> x.v
    [] x.t = "bool" -> IF x.v THEN <<"true">> ELSE <<"false">>
    [] x.t = "date" -> <<"date">>
    [] OTHER -> <<"null">>

IsSpace(c) == c = " "

RECURSIVE TrimStart(_)
TrimStart(s) ==
  IF s = <<>> THEN <<>>
  ELSE IF IsSpace(Head(s)) THEN TrimStart(Tail(s)) ELSE s

RECURSIVE TrimEnd(_)
TrimEnd(s) ==
  IF s = <<>> THEN <<>>
  ELSE IF IsSpace(s[Len(s)]) THEN TrimEnd(SubSeq(s, 1, Len(s) - 1)) ELSE s

\* s.trim()
Trim(s) == TrimEnd(TrimStart(s))

-----------------------------------------------------------------------------
(* The world an invocation runs in *)

\* what the external services do in one invocation: GmailApp.sendEmail,
\* calendar.createEvent and sheet.appendRow complete or throw; setv names the
\* stamp of processNewUser whose Range.setValue throws (0: none)
Envs == [mail : {"ok", "throw"}, cal : {"ok", "throw"},
         append : {"ok", "throw"}, setv : 0..2]

World(env) ==
  [sheets |-> sheets, usuarios |-> usuarios, config |-> config, audit |-> audit,
   mails |-> mails, events |-> events, now |-> now, env |-> env,
   nset |-> 0, trace |-> <<>>, thrown |-> FALSE, ret |-> FALSE]

\* the trace of an invocation: f was called ("call"), returned ("true",
\* "false") or threw ("throw")
Log(w, f, r) == [w EXCEPT !.trace = Append(@, [f |-> f, r |-> r])]

\* throw new Error(...) / an exception of a service
Throw(w, f) == [Log(w, f, "throw") EXCEPT !.thrown = TRUE]

\* return b from a gateway
Return(w, f, b) == [Log(w, f, IF b THEN "true" ELSE "false") EXCEPT !.ret = b]

\* catch (error) { ... }: the exception stops propagating
Catch(w) == [w EXCEPT !.thrown = FALSE]

-----------------------------------------------------------------------------
(* Code.gs *)

\* faulty variant: a missing sheet gives an empty config object instead of an error
getConfig_EmptyWhenMissing(w) ==
  IF "Configuracion" \notin w.sheets
  THEN [w EXCEPT !.ret = [notificarAdmins |-> Null, emailNotificacion |-> Null,
                          crearEventoCalendar |-> Null, calendarioId |-> Null]]
  ELSE [w EXCEPT !.ret = w.config]

\* getConfig(): the config object in ret, or the exception
getConfig(w) ==
  IF "Configuracion" \notin w.sheets
  THEN Throw(w, "getConfig")
  ELSE [w EXCEPT !.ret = w.config]

\* faulty variant: the row is inserted above the rows the sheet holds
appendRow_InsertsFirst(w, row) ==
  IF w.env.append = "throw"
  THEN Throw(w, "appendRow")
  ELSE [Log(w, "appendRow", "call") EXCEPT !.audit = <<row>> \o @]

\* sheet.appendRow(row) on RegistroDeEventos
appendRow(w, row) ==
  IF w.env.append = "throw"
  THEN Throw(w, "appendRow")
  ELSE [Log(w, "appendRow", "call") EXCEPT !.audit = Append(@, row)]

\* event.field || fallback
OrElse(s, fallback) == IF Len(s) > 0 THEN s ELSE fallback

\* faulty variant: no try/catch around the append
logEvent_NoCatch(w, event) ==
  LET w0 == Log(w, "logEvent", "call")
  IN  IF "RegistroDeEventos" \notin w0.sheets
      THEN w0
      ELSE appendRow(w0, [ts |-> w0.now,
                          type |-> OrElse(event.type, <<"EVENTO">>),
                          user |-> OrElse(event.user, <<"Sistema">>),
                          details |-> OrElse(event.details, <<>>),
                          status |-> OrElse(event.status, <<"OK">>),
                          action |-> OrElse(event.action, <<"Ninguna">>)])

\* logEvent(event): one row appended to RegistroDeEventos, best effort
logEvent(w, event) ==
  LET w0 == Log(w, "logEvent", "call")
      r == IF "RegistroDeEventos" \notin w0.sheets
           THEN w0
           ELSE appendRow(w0, [ts |-> w0.now,
                               type |-> OrElse(event.type, <<"EVENTO">>),
                               user |-> OrElse(event.user, <<"Sistema">>),
                               details |-> OrElse(event.details, <<>>),
                               status |-> OrElse(event.status, <<"OK">>),
                               action |-> OrElse(event.action, <<"Ninguna">>)])
  IN  IF r.thrown THEN Catch(r) ELSE r

-----------------------------------------------------------------------------
(* Notifications.gs: the gateways *)

\* config.flag !== true && config.flag !== 'TRUE' is false
Enabled(flag) == StrictEq(flag, B(TRUE)) \/ StrictEq(flag, St(<<"TRUE">>))

NoSpaceNoAt(s) == \A i \in 1..Len(s) : s[i] # " " /\ s[i] # "@"

\* /^[^\s@]+@[^\s@]+\.[^\s@]+$/.test(x); every token but " ", "@" and "."
\* stands for a run of ordinary characters
emailRegexTest(x) ==
  LET s == JsToString(x)
  IN  \E i \in 1..Len(s) : \E k \in 1..Len(s) :
        /\ s[i] = "@"
        /\ 1 < i /\ i + 1 < k /\ k < Len(s)
        /\ s[k] = "."
        /\ NoSpaceNoAt(SubSeq(s, 1, i - 1))
        /\ NoSpaceNoAt(SubSeq(s, i + 1, Len(s)))

\* GmailApp.sendEmail(to, subject, body[, {htmlBody}])
GmailSendEmail(w, to, subject, body, kind) ==
  IF w.env.mail = "throw"
  THEN Throw(w, "GmailApp.sendEmail")
  ELSE [Log(w, "GmailApp.sendEmail", "call") EXCEPT
          !.mails = Append(@, [to |-> to, subject |-> subject, body |-> body,
                               kind |-> kind])]

\* the calendars CalendarApp.getCalendarById resolves
Calendars == {<<"primary">>}

\* calendar.createEvent(title, start, end, {description, sendInvites: false})
CalendarCreateEvent(w, cal, title, description, startTime, endTime) ==
  IF w.env.cal = "throw"
  THEN Throw(w, "calendar.createEvent")
  ELSE [Log(w, "calendar.createEvent", "call") EXCEPT
          !.events = Append(@, [cal |-> cal, title |-> title,
                                description |-> description,
                                start |-> startTime, end |-> endTime])]

\* faulty variant: the config is read before the try block
sendNotification_ConfigOutsideTry(w, subject, body) ==
  LET w0 == Log(w, "sendNotification", "call")
      c == getConfig(w0)
      r == IF ~Enabled(c.ret.notificarAdmins)
           THEN Return(c, "sendNotification", FALSE)
           ELSE IF ~emailRegexTest(c.ret.emailNotificacion)
           THEN Return(c, "sendNotification", FALSE)
           ELSE LET s == GmailSendEmail(c, c.ret.emailNotificacion, subject, body, "plain")
                IN  IF s.thrown THEN s ELSE Return(s, "sendNotification", TRUE)
  IN  IF c.thrown THEN c
      ELSE IF r.thrown THEN Return(Catch(r), "sendNotification", FALSE) ELSE r

\* faulty variant: the address is handed to the mail service unchecked
sendNotification_SkipsValidation(w, subject, body) ==
  LET w0 == Log(w, "sendNotification", "call")
      c == getConfig(w0)
      r == IF c.thrown THEN c
           ELSE IF ~Enabled(c.ret.notificarAdmins)
           THEN Return(c, "sendNotification", FALSE)
           ELSE LET s == GmailSendEmail(c, c.ret.emailNotificacion, subject, body, "plain")
                IN  IF s.thrown THEN s ELSE Return(s, "sendNotification", TRUE)
  IN  IF r.thrown THEN Return(Catch(r), "sendNotification", FALSE) ELSE r

\* faulty variant: a send that fails is tried a second time
sendNotification_RetriesOnce(w, subject, body) ==
  LET w0 == Log(w, "sendNotification", "call")
      c == getConfig(w0)
      r == IF c.thrown THEN c
           ELSE IF ~Enabled(c.ret.notificarAdmins)
           THEN Return(c, "sendNotification", FALSE)
           ELSE IF ~emailRegexTest(c.ret.emailNotificacion)
           THEN Return(c, "sendNotification", FALSE)
           ELSE LET s1 == GmailSendEmail(c, c.ret.emailNotificacion, subject, body, "plain")
                    s == IF s1.thrown
                         THEN GmailSendEmail(Catch(s1), c.ret.emailNotificacion, subject,
                                             body, "plain")
                         ELSE s1
                IN  IF s.thrown THEN s ELSE Return(s, "sendNotification", TRUE)
  IN  IF r.thrown THEN Return(Catch(r), "sendNotification", FALSE) ELSE r

\* sendNotification(subject, body): plain text mail
sendNotification(w, subject, body) ==
  LET w0 == Log(w, "sendNotification", "call")
      c == getConfig(w0)
      r == IF c.thrown THEN c
           ELSE IF ~Enabled(c.ret.notificarAdmins)
           THEN Return(c, "sendNotification", FALSE)
           ELSE IF ~emailRegexTest(c.ret.emailNotificacion)
           THEN Return(c, "sendNotification", FALSE)
           ELSE LET s == GmailSendEmail(c, c.ret.emailNotificacion, subject, body, "plain")
                IN  IF s.thrown THEN s ELSE Return(s, "sendNotification", TRUE)
  IN  IF r.thrown THEN Return(Catch(r), "sendNotification", FALSE) ELSE r

\* faulty variant: no try/catch around the HTML mail
sendHtmlNotification_NoCatch(w, subject, htmlBody) ==
  LET w0 == Log(w, "sendHtmlNotification", "call")
      c == getConfig(w0)
  IN  IF c.thrown THEN c
      ELSE IF ~Enabled(c.ret.notificarAdmins)
      THEN Return(c, "sendHtmlNotification", FALSE)
      ELSE LET s == GmailSendEmail(c, c.ret.emailNotificacion, subject, htmlBody, "html")
           IN  IF s.thrown THEN s ELSE Return(s, "sendHtmlNotification", TRUE)

\* sendHtmlNotification(subject, htmlBody): HTML mail
sendHtmlNotification(w, subject, htmlBody) ==
  LET w0 == Log(w, "sendHtmlNotification", "call")
      c == getConfig(w0)
      r == IF c.thrown THEN c
           ELSE IF ~Enabled(c.ret.notificarAdmins)
           THEN Return(c, "sendHtmlNotification", FALSE)
           ELSE LET s == GmailSendEmail(c, c.ret.emailNotificacion, subject, htmlBody, "html")
                IN  IF s.thrown THEN s ELSE Return(s, "sendHtmlNotification", TRUE)
  IN  IF r.thrown THEN Return(Catch(r), "sendHtmlNotification", FALSE) ELSE r

\* faulty variant: the event is created whatever crearEventoCalendar says
createCalendarEvent_IgnoresFlag(w, title, description, startTime, endTime) ==
  LET w0 == Log(w, "createCalendarEvent", "call")
      c == getConfig(w0)
      r == IF c.thrown THEN c
           ELSE IF JsToString(c.ret.calendarioId) \notin Calendars
           THEN Return(c, "createCalendarEvent", FALSE)
           ELSE LET s == CalendarCreateEvent(c, JsToString(c.ret.calendarioId), title,
                                             description, startTime, endTime)
                IN  IF s.thrown THEN s ELSE Return(s, "createCalendarEvent", TRUE)
  IN  IF r.thrown THEN Return(Catch(r), "createCalendarEvent", FALSE) ELSE r

\* createCalendarEvent(title, description, startTime, endTime)
createCalendarEvent(w, title, description, startTime, endTime) ==
  LET w0 == Log(w, "createCalendarEvent", "call")
      c == getConfig(w0)
      r == IF c.thrown THEN c
           ELSE IF ~Enabled(c.ret.crearEventoCalendar)
           THEN Return(c, "createCalendarEvent", FALSE)
           ELSE IF JsToString(c.ret.calendarioId) \notin Calendars
           THEN Return(c, "createCalendarEvent", FALSE)
           ELSE LET s == CalendarCreateEvent(c, JsToString(c.ret.calendarioId), title,
                                             description, startTime, endTime)
                IN  IF s.thrown THEN s ELSE Return(s, "createCalendarEvent", TRUE)
  IN  IF r.thrown THEN Return(Catch(r), "createCalendarEvent", FALSE) ELSE r

-----------------------------------------------------------------------------
(* Notifications.gs: the processors *)

\* hours of a day (dates are counted in hours)
DayHours == 24

\* sheet.getRange(row, col).setValue(val) on the sheet Usuarios
setValue(w, row, col, val) ==
  LET f == IF col = 6 THEN "setValue(6)" ELSE IF col = 7 THEN "setValue(7)" ELSE "setValue(5)"
  IN  IF "Usuarios" \notin w.sheets \/ row \notin DOMAIN w.usuarios
      THEN Throw(w, f)
      ELSE IF w.env.setv = w.nset + 1
      THEN [Throw(w, f) EXCEPT !.nset = @ + 1]
      ELSE [Log(w, f, "call") EXCEPT !.usuarios[row][col] = val, !.nset = @ + 1]

\* faulty variant: the deactivation is logged and no alert is requested
processInactiveUser_LogOnly(w, user) ==
  LET w0 == Log(w, "processInactiveUser", "call")
  IN  logEvent(w0, [type |-> <<"USUARIO_INACTIVO">>, user |-> user.name,
                    details |-> <<"Usuario desactivado">>,
                    status |-> <<"ALERTA">>, action |-> <<"Email enviado">>])

\* faulty variant: a user whose deactivation is in the audit log is skipped
processInactiveUser_OncePerUser(w, user) ==
  LET w0 == Log(w, "processInactiveUser", "call")
      l == logEvent(w0, [type |-> <<"USUARIO_INACTIVO">>, user |-> user.name,
                         details |-> <<"Usuario desactivado">>,
                         status |-> <<"ALERTA">>, action |-> <<"Email enviado">>])
  IN  IF \E i \in 1..Len(w.audit) :
           w.audit[i].type = <<"USUARIO_INACTIVO">> /\ w.audit[i].user = user.name
      THEN w0
      ELSE IF l.thrown THEN l
      ELSE sendNotification(l, <<"Usuario inactivo detectado">>,
                            user.name \o user.email \o user.group)

\* processInactiveUser(user): audit row + plain alert mail
processInactiveUser(w, user) ==
  LET w0 == Log(w, "processInactiveUser", "call")
      l == logEvent(w0, [type |-> <<"USUARIO_INACTIVO">>, user |-> user.name,
                         details |-> <<"Usuario desactivado">>,
                         status |-> <<"ALERTA">>, action |-> <<"Email enviado">>])
  IN  IF l.thrown THEN l
      ELSE sendNotification(l, <<"Usuario inactivo detectado">>,
                            user.name \o user.email \o user.group)

\* faulty variant: the role is compared without regard to case
esAdmin_IgnoreCase(role) == role \in {<<"Admin">>, <<"admin">>}

\* user.role === 'Admin'
esAdmin(role) == role = <<"Admin">>

\* notifyRoleChange(user): audit row, and a plain alert mail for Admin
notifyRoleChange(w, user) ==
  LET w0 == Log(w, "notifyRoleChange", "call")
      l == logEvent(w0, [type |-> <<"ROL_MODIFICADO">>, user |-> user.name,
                         details |-> <<"Nuevo rol: ">> \o user.role,
                         status |-> IF esAdmin(user.role) THEN <<"WARNING">> ELSE <<"OK">>,
                         action |-> IF esAdmin(user.role) THEN <<"Email enviado">>
                                    ELSE <<"Solo registro">>])
  IN  IF l.thrown THEN l
      ELSE IF esAdmin(user.role)
      THEN sendNotification(l, <<"Cambio Critico: Nuevo Administrador">>,
                            user.name \o user.email \o user.group)
      ELSE l

\* tomorrow.setDate(getDate() + 1); tomorrow.setHours(h, 0, 0, 0)
TomorrowAt(t, h) == ((t \div DayHours) + 1) * DayHours + h

\* variant with a conditional write: a row that already holds a
\* dateRegistered is left alone
processNewUser_StampIfAbsent(w, user, row) ==
  LET w0 == Log(w, "processNewUser", "call")
      ahora == D(w0.now)
      s1 == setValue(w0, row, 6, ahora)
      s2 == IF s1.thrown THEN s1 ELSE setValue(s1, row, 7, ahora)
      l == IF s2.thrown THEN s2
           ELSE logEvent(s2, [type |-> <<"USUARIO_AGREGADO">>, user |-> user.name,
                              details |-> <<"Rol: ">> \o user.role \o <<", Grupo: ">> \o user.group,
                              status |-> <<"OK">>,
                              action |-> <<"Email y evento creados">>])
      n == IF l.thrown THEN l
           ELSE sendHtmlNotification(l, <<"Nuevo usuario agregado">>,
                                     user.name \o user.email \o user.role \o user.group)
  IN  IF row \in DOMAIN w.usuarios /\ Truthy(w.usuarios[row][6]) THEN w0
      ELSE IF n.thrown THEN n
      ELSE createCalendarEvent(n, <<"Onboarding: ">> \o user.name,
                               <<"Sesion de Onboarding">> \o user.name \o user.email
                                 \o user.role \o user.group,
                               TomorrowAt(n.now, 10), TomorrowAt(n.now, 11))

\* faulty variant: the welcome mail goes out before the audit row is written
processNewUser_NotifyBeforeAudit(w, user, row) ==
  LET w0 == Log(w, "processNewUser", "call")
      ahora == D(w0.now)
      s1 == setValue(w0, row, 6, ahora)
      s2 == IF s1.thrown THEN s1 ELSE setValue(s1, row, 7, ahora)
      n == IF s2.thrown THEN s2
           ELSE sendHtmlNotification(s2, <<"Nuevo usuario agregado">>,
                                     user.name \o user.email \o user.role \o user.group)
      l == IF n.thrown THEN n
           ELSE logEvent(n, [type |-> <<"USUARIO_AGREGADO">>, user |-> user.name,
                             details |-> <<"Rol: ">> \o user.role \o <<", Grupo: ">> \o user.group,
                             status |-> <<"OK">>,
                             action |-> <<"Email y evento creados">>])
  IN  IF l.thrown THEN l
      ELSE createCalendarEvent(l, <<"Onboarding: ">> \o user.name,
                               <<"Sesion de Onboarding">> \o user.name \o user.email
                                 \o user.role \o user.group,
                               TomorrowAt(l.now, 10), TomorrowAt(l.now, 11))

\* faulty variant: the Active cell of the new row is rewritten as 'TRUE'
registrarNuevoUsuario_RewritesActive(w, user, row) ==
  LET w0 == Log(w, "processNewUser", "call")
      ahora == D(w0.now)
      s1 == setValue(w0, row, 6, ahora)
      s2 == IF s1.thrown THEN s1 ELSE setValue(s1, row, 7, ahora)
      s3 == IF s2.thrown THEN s2 ELSE setValue(s2, row, 5, St(<<"TRUE">>))
      l == IF s3.thrown THEN s3
           ELSE logEvent(s3, [type |-> <<"USUARIO_AGREGADO">>, user |-> user.name,
                              details |-> <<"Rol: ">> \o user.role \o <<", Grupo: ">> \o user.group,
                              status |-> <<"OK">>,
                              action |-> <<"Email y evento creados">>])
  IN  IF l.thrown THEN l
      ELSE sendHtmlNotification(l, <<"Nuevo usuario agregado">>,
                                user.name \o user.email \o user.role \o user.group)

\* processNewUser(user, row) up to the welcome mail: stamp, audit row, HTML mail
registrarNuevoUsuario(w, user, row) ==
  LET w0 == Log(w, "processNewUser", "call")
      ahora == D(w0.now)
      s1 == setValue(w0, row, 6, ahora)
      s2 == IF s1.thrown THEN s1 ELSE setValue(s1, row, 7, ahora)
      l == IF s2.thrown THEN s2
           ELSE logEvent(s2, [type |-> <<"USUARIO_AGREGADO">>, user |-> user.name,
                              details |-> <<"Rol: ">> \o user.role \o <<", Grupo: ">> \o user.group,
                              status |-> <<"OK">>,
                              action |-> <<"Email y evento creados">>])
  IN  IF l.thrown THEN l
      ELSE sendHtmlNotification(l, <<"Nuevo usuario agregado">>,
                                user.name \o user.email \o user.role \o user.group)

\* processNewUser(user, row) from the welcome mail on: the onboarding event
agendarOnboarding(n, user) ==
  createCalendarEvent(n, <<"Onboarding: ">> \o user.name,
                      <<"Sesion de Onboarding">> \o user.name \o user.email
                        \o user.role \o user.group,
                      TomorrowAt(n.now, 10), TomorrowAt(n.now, 11))

\* processNewUser(user, row): stamp, audit row, HTML mail, onboarding event
processNewUser(w, user, row) ==
  LET n == registrarNuevoUsuario(w, user, row)
  IN  IF n.thrown THEN n ELSE agendarOnboarding(n, user)

-----------------------------------------------------------------------------
(* Triggers.gs: the edit trigger *)

\* a text cell read into the user object: x ? x.toString().trim() : ''
TextField(x) == IF Truthy(x) THEN Trim(JsToString(x)) ELSE <<>>

\* faulty variant: the Active cell counts as true for the boolean only
ActiveField_BooleanOnly(x) == StrictEq(x, B(TRUE))

\* faulty variant: the text is compared without regard to case
ActiveField_IgnoresCase(x) ==
  StrictEq(x, B(TRUE)) \/ x \in {St(<<"TRUE">>), St(<<"true">>), St(<<"True">>)}

\* the Active cell as a boolean
ActiveField(x) ==
  StrictEq(x, B(TRUE)) \/ StrictEq(x, St(<<"TRUE">>)) \/ StrictEq(x, St(<<"true">>))

\* x || null
OrNull(x) == IF Truthy(x) THEN x ELSE Null

\* the user object handleUserEdit builds from the row it read
UserOf(userData) ==
  [name |-> TextField(userData[1]), email |-> TextField(userData[2]),
   role |-> TextField(userData[3]), group |-> TextField(userData[4]),
   active |-> ActiveField(userData[5]),
   dateRegistered |-> OrNull(userData[6]), lastAccess |-> OrNull(userData[7])]

\* faulty variant: the completeness check also wants Active to be true
filaCompleta_RequiresActive(user) ==
  Len(user.name) > 0 /\ Len(user.email) > 0 /\ Len(user.role) > 0 /\ Len(user.group) > 0
    /\ user.active

\* user.name && user.email && user.role && user.group
filaCompleta(user) ==
  Len(user.name) > 0 /\ Len(user.email) > 0 /\ Len(user.role) > 0 /\ Len(user.group) > 0

\* faulty variant: the row counts as new while lastAccess is empty
esNuevo_ChecksLastAccess(user) == ~Truthy(user.lastAccess)

\* !user.dateRegistered || user.dateRegistered === ''
esNuevo(user) == ~Truthy(user.dateRegistered) \/ StrictEq(user.dateRegistered, Empty)

\* the deactivation detection: col === 5 && user.active === false
esDesactivacion(col, user) == col = 5 /\ user.active = FALSE

\* faulty variant: only a change to Admin counts as a role change
esCambioRol_AdminOnly(col, user) ==
  col = 3 /\ Truthy(user.dateRegistered) /\ user.role = <<"Admin">>

\* the role change detection: col === 3 && user.dateRegistered
esCambioRol(col, user) == col = 3 /\ Truthy(user.dateRegistered)

\* handleUserEdit(e) from the user object on: the three detections and
\* their processors
clasificar(w, user, row, col) ==
  IF col >= 1 /\ col <= 5 /\ filaCompleta(user) /\ esNuevo(user)
  THEN processNewUser(w, user, row)
  ELSE LET a == IF esDesactivacion(col, user)
                THEN processInactiveUser(w, user) ELSE w
       IN  IF a.thrown THEN a
           ELSE IF esCambioRol(col, user)
           THEN notifyRoleChange(a, user) ELSE a

\* faulty variant: the header row is read and classified like any other row
handleUserEdit_NoHeaderGuard(w, row, col) ==
  LET w0 == Log(w, "handleUserEdit", "call")
      header == <<St(<<"Nombre">>), St(<<"Email">>), St(<<"Rol">>), St(<<"Grupo">>),
                  St(<<"Activo">>), St(<<"Fecha Registro">>), St(<<"Ultimo Acceso">>)>>
      userData == IF row = 1 THEN header ELSE w0.usuarios[row]
  IN  clasificar(Log(w0, "getValues", "call"), UserOf(userData), row, col)

\* handleUserEdit(e) for an edit of cell (row, col) of Usuarios
handleUserEdit(w, row, col) ==
  LET w0 == Log(w, "handleUserEdit", "call")
  IN  IF row = 1 THEN w0
      ELSE clasificar(Log(w0, "getValues", "call"), UserOf(w0.usuarios[row]), row, col)

\* the catch block of onEdit: the failure is logged, not passed on
capturar(r) ==
  IF r.thrown
  THEN logEvent(Catch(r), [type |-> <<"ERROR">>, user |-> <<"Sistema">>,
                           details |-> <<"Error en trigger">>,
                           status |-> <<"ERROR">>, action |-> <<>>])
  ELSE r

\* faulty variant: no try/catch around the routing
onEdit_NoCatch(w, sheetName, row, col) ==
  LET w0 == Log(w, "onEdit", "call")
  IN  IF sheetName = "Usuarios" THEN handleUserEdit(w0, row, col) ELSE w0

\* onEdit(e): routes the edits of Usuarios, logs any failure
onEdit(w, sheetName, row, col) ==
  LET w0 == Log(w, "onEdit", "call")
  IN  capturar(IF sheetName = "Usuarios" THEN handleUserEdit(w0, row, col) ELSE w0)

\* enviarReporteInactivos(usuariosInactivos): the digest, one HTML mail
RECURSIVE tabla(_)
tabla(us) ==
  IF us = <<>> THEN <<>>
  ELSE JsToString(Head(us).name) \o JsToString(Head(us).group)
         \o <<ToString(Head(us).days), "dias">> \o tabla(Tail(us))

enviarReporteInactivos(w, usuariosInactivos) ==
  LET w0 == Log(w, "enviarReporteInactivos", "call")
  IN  sendHtmlNotification(w0, <<"Reporte Diario">>, tabla(usuariosInactivos))

-----------------------------------------------------------------------------
(* Code.gs: the registry reader; Triggers.gs: the daily sweep *)

\* a number of JavaScript: an integer or NaN
Num(n) == [nan |-> FALSE, n |-> n]
NaN == [nan |-> TRUE, n |-> 0]

\* faulty variant: a count equal to the limit passes as well
GreaterThan_OrEqual(a, k) == ~a.nan /\ a.n >= k

\* a > k (false for NaN)
GreaterThan(a, k) == ~a.nan /\ a.n > k

\* new Date(x).getTime() in hours: a Date is copied, '' and other text the
\* parser rejects give an invalid date, null and booleans count from the epoch
DateOf(x) ==
  CASE x.t = "date" -> Num(x.v)
    [] x.t = "str" -> NaN
    [] OTHER -> Num(0)

\* faulty variant: a started day counts as a whole day
getDaysSinceLastAccess_RoundsUp(today, lastAccessDate) ==
  LET lastAccess == DateOf(lastAccessDate)
      diffTime == IF today >= lastAccess.n THEN today - lastAccess.n ELSE lastAccess.n - today
  IN  IF lastAccess.nan THEN NaN ELSE Num((diffTime + DayHours - 1) \div DayHours)

\* getDaysSinceLastAccess(lastAccessDate): floor(|today - lastAccess| / one day)
getDaysSinceLastAccess(today, lastAccessDate) ==
  LET lastAccess == DateOf(lastAccessDate)
      diffTime == IF today >= lastAccess.n THEN today - lastAccess.n ELSE lastAccess.n - today
  IN  IF lastAccess.nan THEN NaN ELSE Num(diffTime \div DayHours)

\* faulty variant: the Active cell counts as true for the boolean only
ActiveCell_BooleanOnly(x) == StrictEq(x, B(TRUE))

\* data[i][4] === true || data[i][4] === 'TRUE'
ActiveCell(x) == StrictEq(x, B(TRUE)) \/ StrictEq(x, St(<<"TRUE">>))

\* the record getUsers builds from a row
UserRecord(data) ==
  [name |-> data[1], email |-> data[2], role |-> data[3], group |-> data[4],
   active |-> ActiveCell(data[5]), dateRegistered |-> data[6], lastAccess |-> data[7]]

\* the rows from row i on, as records, rows without a name left out
RECURSIVE usersFrom(_, _)
usersFrom(data, i) ==
  IF i \notin DOMAIN data THEN <<>>
  ELSE IF ~Truthy(data[i][1]) THEN usersFrom(data, i + 1)
  ELSE <<UserRecord(data[i])>> \o usersFrom(data, i + 1)

\* getUsers(): every user of the sheet Usuarios, [] when the sheet is missing
getUsers(w) == IF "Usuarios" \notin w.sheets THEN <<>> ELSE usersFrom(w.usuarios, 2)

\* faulty variant: the last row of that name is taken
findRow_LastMatch(data, name, i) ==
  LET rows == {r \in DOMAIN data : r >= i /\ StrictEq(data[r][1], name)}
  IN  IF rows = {} THEN 0 ELSE CHOOSE r \in rows : \A q \in rows : q <= r

\* the first row from row i on whose name cell === name (0: none)
RECURSIVE findRow(_, _, _)
findRow(data, name, i) ==
  IF i \notin DOMAIN data THEN 0
  ELSE IF StrictEq(data[i][1], name) THEN i
  ELSE findRow(data, name, i + 1)

\* variant with a conditional write: a user whose row is no longer active is
\* left alone
desactivar_ConditionalWrite(w, user, dias) ==
  LET row == findRow(w.usuarios, user.name, 2)
      s == IF "Usuarios" \notin w.sheets THEN Throw(w, "getDataRange")
           ELSE IF row = 0 THEN w
           ELSE setValue(w, row, 5, St(<<"FALSE">>))
  IN  IF row # 0 /\ ~ActiveCell(w.usuarios[row][5]) THEN w
      ELSE IF s.thrown THEN s
      ELSE logEvent(s, [type |-> <<"USUARIO_INACTIVO">>, user |-> JsToString(user.name),
                        details |-> <<ToString(dias.n), "dias sin actividad">>,
                        status |-> <<"ALERTA">>,
                        action |-> <<"Desactivado automaticamente">>])

\* faulty variant: the sweep hands the user to the Deactivation processor
desactivar_ViaProcessor(w, user, dias) ==
  LET row == findRow(w.usuarios, user.name, 2)
      s == IF "Usuarios" \notin w.sheets THEN Throw(w, "getDataRange")
           ELSE IF row = 0 THEN w
           ELSE setValue(w, row, 5, St(<<"FALSE">>))
  IN  IF s.thrown THEN s
      ELSE processInactiveUser(s, [name |-> JsToString(user.name),
                                   email |-> JsToString(user.email),
                                   group |-> JsToString(user.group)])

\* faulty variant: a user whose row is not found gets no audit row
desactivar_SkipsMissing(w, user, dias) ==
  LET row == findRow(w.usuarios, user.name, 2)
      s == IF "Usuarios" \notin w.sheets THEN Throw(w, "getDataRange")
           ELSE IF row = 0 THEN w
           ELSE setValue(w, row, 5, St(<<"FALSE">>))
  IN  IF s.thrown \/ row = 0 THEN s
      ELSE logEvent(s, [type |-> <<"USUARIO_INACTIVO">>, user |-> JsToString(user.name),
                        details |-> <<ToString(dias.n), "dias sin actividad">>,
                        status |-> <<"ALERTA">>,
                        action |-> <<"Desactivado automaticamente">>])

\* the body of the sweep for one stale user: Active := 'FALSE' in the first
\* row of that name, then the audit row
desactivar(w, user, dias) ==
  LET row == findRow(w.usuarios, user.name, 2)
      s == IF "Usuarios" \notin w.sheets THEN Throw(w, "getDataRange")
           ELSE IF row = 0 THEN w
           ELSE setValue(w, row, 5, St(<<"FALSE">>))
  IN  IF s.thrown THEN s
      ELSE logEvent(s, [type |-> <<"USUARIO_INACTIVO">>, user |-> JsToString(user.name),
                        details |-> <<ToString(dias.n), "dias sin actividad">>,
                        status |-> <<"ALERTA">>,
                        action |-> <<"Desactivado automaticamente">>])

\* users.forEach(...): the scan, the batch of deactivated users in ret
RECURSIVE scan(_, _, _)
scan(w, users, usuariosInactivos) ==
  IF users = <<>> THEN [w EXCEPT !.ret = usuariosInactivos]
  ELSE LET user == Head(users)
           dias == getDaysSinceLastAccess(w.now, user.lastAccess)
       IN  IF ~user.active THEN scan(w, Tail(users), usuariosInactivos)
           ELSE IF ~GreaterThan(dias, 7) THEN scan(w, Tail(users), usuariosInactivos)
           ELSE LET d == desactivar(w, user, dias)
                IN  IF d.thrown THEN d
                    ELSE scan(Log(d, "usuariosInactivos.push", "call"), Tail(users),
                              Append(usuariosInactivos,
                                     [name |-> user.name, group |-> user.group,
                                      days |-> dias.n]))

\* faulty variant: the digest goes out after every scan
reportar_AlwaysReports(w, users) ==
  LET s == scan(w, users, <<>>)
  IN  IF s.thrown THEN s ELSE enviarReporteInactivos(s, s.ret)

\* the sweep from the user list on: the scan, then the digest if anyone was
\* deactivated
reportar(w, users) ==
  LET s == scan(w, users, <<>>)
  IN  IF s.thrown THEN s
      ELSE IF Len(s.ret) > 0 THEN enviarReporteInactivos(s, s.ret)
      ELSE s

\* verificarUsuariosInactivos(): the daily sweep
verificarUsuariosInactivos(w) ==
  LET w0 == Log(w, "verificarUsuariosInactivos", "call")
  IN  reportar(w0, getUsers(w0))

-----------------------------------------------------------------------------
(* The state *)

AllSheets == {"Usuarios", "Configuracion", "RegistroDeEventos"}

EmptyRow == <<Empty, Empty, Empty, Empty, Empty, Empty, Empty>>

ValidEmail == <<"ana", "@", "x", ".", "mx">>

\* what a user types into a cell of column col
CellValues(col) ==
  CASE col = 1 -> {Empty, St(<<" ">>), St(<<" ", "Ana", " ">>)}
    [] col = 2 -> {Empty, St(ValidEmail)}
    [] col = 3 -> {Empty, St(<<"Admin">>), St(<<"Editor">>)}
    [] col = 4 -> {Empty, St(<<"IT">>)}
    [] col = 5 -> {B(TRUE), B(FALSE), St(<<"TRUE">>), St(<<"FALSE">>)}
    [] OTHER -> {Empty, D(now)}

\* rows the sheet can hold when a behaviour starts: blank, being filled in,
\* filled in by hand with processing still to come, and registered
DraftRow == <<St(<<" ", "Ana", " ">>), St(ValidEmail), St(<<"Editor">>), Empty, Empty, Empty, Empty>>
NewRow == <<St(<<" ", "Ana", " ">>), St(ValidEmail), St(<<"Editor">>), St(<<"IT">>), B(TRUE), Empty, Empty>>
RegisteredRow == <<St(<<" ", "Ana", " ">>), St(ValidEmail), St(<<"Editor">>), St(<<"IT">>), B(TRUE), D(now), D(now)>>
InitRows == {EmptyRow, DraftRow, NewRow, RegisteredRow}

ConfigOn ==
  [notificarAdmins |-> St(<<"TRUE">>), emailNotificacion |-> St(ValidEmail),
   crearEventoCalendar |-> St(<<"TRUE">>), calendarioId |-> St(<<"primary">>)]

NoUser ==
  [name |-> <<>>, email |-> <<>>, role |-> <<>>, group |-> <<>>, active |-> FALSE,
   dateRegistered |-> Null, lastAccess |-> Null]

\* the record of the last invocation: the entry point, its arguments, the row
\* it read, the user object it worked on, whether the row held a stamp of
\* processNewUser and how long the audit log, the mailbox and the calendar
\* were when it started, the calls it made and whether it ended by raising
NoLast ==
  [kind |-> "none", sheet |-> "", row |-> 0, col |-> 0, data |-> EmptyRow,
   user |-> NoUser, wasStamped |-> FALSE, audit0 |-> 0, mails0 |-> 0, events0 |-> 0,
   trace |-> <<>>, thrown |-> FALSE]

\* the invocations the platform runs side by side
Racers == {1, 2}

\* an invocation that has not started: once fired it holds the cell of its
\* event, then the user object (or the user list) and the config its first
\* gateway call has read, then its calls
Idle ==
  [kind |-> "idle", pc |-> "idle", row |-> 0, col |-> 0, user |-> NoUser,
   users |-> <<>>, config |-> Null, trace |-> <<>>]

InitCommon ==
  /\ running = [i \in Racers |-> Idle]
  /\ now = 10 * DayHours + 9
  /\ audit = <<>>
  /\ mails = <<>>
  /\ events = <<>>
  /\ nInv = 0
  /\ stamped = {}
  /\ last = NoLast

Init ==
  /\ InitCommon
  /\ sheets = AllSheets
  /\ config = ConfigOn
  /\ usuarios \in {f \in [Rows -> InitRows] : \A r \in Rows : r > 2 => f[r] = EmptyRow}

Threw(trace, f) == \E i \in 1..Len(trace) : trace[i].f = f /\ trace[i].r = "throw"

\* a failure is drawn only for a service the invocation calls: the drawn
\* failures are the ones that happened
Happened(w) ==
  /\ w.env.mail = "throw" => Threw(w.trace, "GmailApp.sendEmail")
  /\ w.env.cal = "throw" => Threw(w.trace, "calendar.createEvent")
  /\ w.env.append = "throw" => Threw(w.trace, "appendRow")
  /\ w.env.setv = 1 => Threw(w.trace, "setValue(6)")
  /\ w.env.setv = 2 => Threw(w.trace, "setValue(7)")

Reached(trace, f) == \E i \in 1..Len(trace) : trace[i].f = f

EnvOk == [mail |-> "ok", cal |-> "ok", append |-> "ok", setv |-> 0]

\* the failures worth drawing, given the trace of the run in which no
\* service fails (a failure only cuts that run short or diverts it to a
\* catch block whose calls the run makes too)
EnvsFor(trace) ==
  {e \in Envs :
     /\ e.mail = "throw" => Reached(trace, "GmailApp.sendEmail")
     /\ e.cal = "throw" => Reached(trace, "calendar.createEvent")
     /\ e.append = "throw" => Reached(trace, "appendRow")
     /\ e.setv = 1 => Reached(trace, "setValue(6)")
     /\ e.setv = 2 => Reached(trace, "setValue(7)")}

\* the world an invocation leaves behind becomes the state
Effects(w, l) ==
  /\ Happened(w)
  /\ sheets' = w.sheets
  /\ usuarios' = w.usuarios
  /\ config' = w.config
  /\ audit' = w.audit
  /\ mails' = w.mails
  /\ events' = w.events
  /\ now' = w.now
  /\ nInv' = nInv + 1
  /\ stamped' = IF \E i \in 1..Len(w.trace) :
                      w.trace[i].f = "setValue(6)" /\ w.trace[i].r = "call"
                 THEN stamped \cup {l.row}
                 ELSE IF l.kind = "onEdit" /\ l.col = 6 /\ ~Truthy(l.data[6])
                 THEN stamped \ {l.row}
                 ELSE stamped
  /\ last' = [l EXCEPT !.wasStamped = l.row \in stamped, !.audit0 = Len(audit),
                        !.mails0 = Len(mails), !.events0 = Len(events),
                        !.trace = w.trace, !.thrown = w.thrown]

\* an invocation that runs alone, from start to end
Commit(w, l) == Effects(w, l) /\ running' = running

-----------------------------------------------------------------------------
(* Actions: the edit trigger *)

\* a user types val into cell (row, col) of Usuarios; the platform then runs
\* onEdit(e) for that cell
EditUsuarios(row, col, val) ==
  /\ nInv < MaxInv
  /\ "Usuarios" \in sheets
  /\ LET edited == IF row \in Rows THEN [usuarios EXCEPT ![row][col] = val] ELSE usuarios
         data == IF row \in Rows THEN edited[row] ELSE EmptyRow
     IN  \E base \in {onEdit([World(EnvOk) EXCEPT !.usuarios = edited], "Usuarios", row, col)} :
           \E env \in EnvsFor(base.trace) :
             \E w \in {onEdit([World(env) EXCEPT !.usuarios = edited], "Usuarios", row, col)} :
               Commit(w, [NoLast EXCEPT !.kind = "onEdit", !.sheet = "Usuarios",
                                        !.row = row, !.col = col, !.data = data,
                                        !.user = UserOf(data)])

Next ==
  \E row \in 1..MaxRow, col \in 1..7 :
    \E val \in CellValues(col) : EditUsuarios(row, col, val)

Spec == Init /\ [][Next]_vars

-----------------------------------------------------------------------------
(* Actions: the processors and gateways run on their own, as the manual     *)
(* entry points of the script run them (pruebaAgregarUsuario,               *)
(* pruebaUsuarioInactivo, pruebaCambioRol, probarNotifications,             *)
(* pruebaConfiguracion)                                                     *)

\* the user objects handed to a processor
ProcUser == UserOf(NewRow)

RoleUsers == {[ProcUser EXCEPT !.role = r] : r \in {<<"Admin">>, <<"Editor">>, <<"admin">>}}

\* the batch handed to the digest
Batch == <<[name |-> St(<<"Ana">>), group |-> St(<<"IT">>), days |-> 8]>>

\* pruebaConfiguracion(): reads the config, then reports it
pruebaConfiguracion(w) ==
  LET w0 == Log(w, "pruebaConfiguracion", "call")
      c == getConfig(w0)
  IN  IF c.thrown THEN c ELSE Log(c, "pruebaConfiguracion", "true")

\* one invocation of an entry point: worlds are the worlds it can leave, one
\* for each way the services it calls can behave
Invoke(kind, user, row, worlds) ==
  /\ nInv < MaxInv
  /\ \E w \in worlds :
       Commit(w, [NoLast EXCEPT !.kind = kind, !.user = user, !.row = row])

RunProcessNewUser(user, row) ==
  LET run(env) == processNewUser(World(env), user, row)
  IN  Invoke("processNewUser", user, row, {run(env) : env \in EnvsFor(run(EnvOk).trace)})

RunProcessInactiveUser(user) ==
  LET run(env) == processInactiveUser(World(env), user)
  IN  Invoke("processInactiveUser", user, 0, {run(env) : env \in EnvsFor(run(EnvOk).trace)})

RunNotifyRoleChange(user) ==
  LET run(env) == notifyRoleChange(World(env), user)
  IN  Invoke("notifyRoleChange", user, 0, {run(env) : env \in EnvsFor(run(EnvOk).trace)})

RunEnviarReporteInactivos ==
  LET run(env) == enviarReporteInactivos(World(env), Batch)
  IN  Invoke("enviarReporteInactivos", NoUser, 0, {run(env) : env \in EnvsFor(run(EnvOk).trace)})

RunSendNotification ==
  LET run(env) == sendNotification(World(env), <<"Prueba de Email">>, <<"prueba">>)
  IN  Invoke("sendNotification", NoUser, 0, {run(env) : env \in EnvsFor(run(EnvOk).trace)})

RunSendHtmlNotification ==
  LET run(env) == sendHtmlNotification(World(env), <<"Prueba de Email HTML">>, <<"prueba">>)
  IN  Invoke("sendHtmlNotification", NoUser, 0, {run(env) : env \in EnvsFor(run(EnvOk).trace)})

RunCreateCalendarEvent ==
  LET run(env) == createCalendarEvent(World(env), <<"Prueba de Evento">>, <<"prueba">>,
                                      TomorrowAt(now, 15), TomorrowAt(now, 16))
  IN  Invoke("createCalendarEvent", NoUser, 0, {run(env) : env \in EnvsFor(run(EnvOk).trace)})

RunPruebaConfiguracion ==
  LET run(env) == pruebaConfiguracion(World(env))
  IN  Invoke("pruebaConfiguracion", NoUser, 0, {run(env) : env \in EnvsFor(run(EnvOk).trace)})

\* the configurations a behaviour of the processors starts from: the mail
\* side varies with the calendar side on, and the other way round
InvalidEmail == <<"ana", "@", "x">>

MailConfigs ==
  {[ConfigOn EXCEPT !.notificarAdmins = n, !.emailNotificacion = St(e)] :
     n \in {B(TRUE), St(<<"TRUE">>), St(<<"FALSE">>)}, e \in {ValidEmail, InvalidEmail}}

CalendarConfigs ==
  {[ConfigOn EXCEPT !.crearEventoCalendar = c, !.calendarioId = St(i)] :
     c \in {St(<<"TRUE">>), B(FALSE)}, i \in {<<"primary">>, <<"otro">>}}

InitProc ==
  /\ InitCommon
  /\ \/ sheets = AllSheets /\ config \in MailConfigs \cup CalendarConfigs
     \/ sheets = AllSheets \ {"Configuracion"} /\ config = ConfigOn
     \/ sheets = AllSheets \ {"RegistroDeEventos"} /\ config = ConfigOn
  /\ usuarios = [r \in Rows |-> IF r = 2 THEN NewRow ELSE EmptyRow]

NextProc ==
  \/ \E row \in {0} \cup Rows : RunProcessNewUser(ProcUser, row)
  \/ RunProcessInactiveUser(ProcUser)
  \/ \E user \in RoleUsers : RunNotifyRoleChange(user)
  \/ RunEnviarReporteInactivos
  \/ RunPruebaConfiguracion

SpecProc == InitProc /\ [][NextProc]_vars

\* every configuration, for the gateways run on their own
AllConfigs ==
  [notificarAdmins : {B(TRUE), St(<<"TRUE">>), St(<<"FALSE">>)},
   emailNotificacion : {St(ValidEmail), St(InvalidEmail), St(<<"@", "x", ".", "mx">>),
                        St(<<"ana", " ", "b", "@", "x", ".", "mx">>)},
   crearEventoCalendar : {B(TRUE), St(<<"TRUE">>), B(FALSE)},
   calendarioId : {St(<<"primary">>), St(<<"otro">>)}]

InitGateway ==
  /\ InitCommon
  /\ sheets \in {AllSheets, AllSheets \ {"Configuracion"}}
  /\ config \in AllConfigs
  /\ usuarios = [r \in Rows |-> IF r = 2 THEN NewRow ELSE EmptyRow]

NextGateway ==
  \/ RunSendNotification
  \/ RunSendHtmlNotification
  \/ RunCreateCalendarEvent
  \/ RunPruebaConfiguracion

SpecGateway == InitGateway /\ [][NextGateway]_vars

-----------------------------------------------------------------------------
(* Actions: the daily sweep, run by the time trigger (or by hand through    *)
(* pruebaVerificacionDiaria)                                                *)

SweepRows == 2..MaxUsers + 1

\* the clock when a behaviour starts
Now0 == 10 * DayHours + 9

\* a registered user who last came in lastAccess
SweepUser(name, active, lastAccess) ==
  <<St(<<name>>), St(ValidEmail), St(<<"Editor">>), St(<<"IT">>), active,
    D(Now0 - 20 * DayHours), lastAccess>>

\* last access 7 days and 23 hours ago, 8 days ago, 15 days ago, never
LastAccessValues ==
  {D(Now0 - (8 * DayHours - 1)), D(Now0 - 8 * DayHours), D(Now0 - 15 * DayHours), Empty}

SweepInitRows ==
  {EmptyRow} \cup {SweepUser(n, a, l) : n \in {"Ana", "Luis"},
                                        a \in {B(TRUE), St(<<"TRUE">>), B(FALSE)},
                                        l \in LastAccessValues}

ConfigOff == [ConfigOn EXCEPT !.notificarAdmins = St(<<"FALSE">>)]

InitSweep ==
  /\ InitCommon
  /\ \/ /\ sheets = AllSheets
        /\ config \in {ConfigOn, ConfigOff}
        /\ usuarios \in [SweepRows -> SweepInitRows]
     \/ /\ sheets = AllSheets \ {"RegistroDeEventos"}
        /\ config = ConfigOn
        /\ usuarios \in [SweepRows -> SweepInitRows]
     \/ /\ sheets = AllSheets \ {"Usuarios"}
        /\ config = ConfigOn
        /\ usuarios = [r \in SweepRows |-> EmptyRow]

\* the time trigger fires, adv hours after the previous invocation
RunVerificarUsuariosInactivos(adv) ==
  LET run(env) == verificarUsuariosInactivos([World(env) EXCEPT !.now = now + adv])
  IN  Invoke("verificarUsuariosInactivos", NoUser, 0,
             {run(env) : env \in EnvsFor(run(EnvOk).trace)})

NextSweep == \E adv \in {0, DayHours} : RunVerificarUsuariosInactivos(adv)

SpecSweep == InitSweep /\ [][NextSweep]_vars

\* the sweep over users whose last access lies around the present: earlier
\* the same day, this hour, later the same day, tomorrow, 8 and 15 days ahead,
\* and 15 days back
NearAndFutureValues ==
  {D(Now0 - 5), D(Now0), D(Now0 + 5), D(Now0 + DayHours + 6),
   D(Now0 + 8 * DayHours), D(Now0 + 15 * DayHours), D(Now0 - 15 * DayHours)}

InitDays ==
  /\ InitCommon
  /\ sheets = AllSheets
  /\ config = ConfigOn
  /\ usuarios \in [SweepRows -> {SweepUser(n, B(TRUE), l) :
                                   n \in {"Ana", "Luis"}, l \in NearAndFutureValues}]

SpecDays == InitDays /\ [][NextSweep]_vars

-----------------------------------------------------------------------------
(* Actions: invocations that overlap. The platform starts an onEdit for     *)
(* every edit and a sweep for every tick of the time trigger without        *)
(* waiting for the ones that run; each reads the sheet first and acts on    *)
(* what it has read afterwards. The services complete.                      *)

\* the edits users make while invocations overlap
RaceEdits == {<<3, St(<<"Admin">>)>>, <<4, St(<<"IT">>)>>, <<5, B(TRUE)>>, <<5, B(FALSE)>>}

\* a registered user who last came in 15 days ago
StaleRow == SweepUser("Ana", B(TRUE), D(Now0 - 15 * DayHours))

InitRace ==
  /\ InitCommon
  /\ sheets = AllSheets
  /\ config = ConfigOn
  /\ \E x \in {NewRow, DraftRow, RegisteredRow, StaleRow} :
       usuarios = [r \in Rows |-> IF r = 2 THEN x ELSE EmptyRow]

\* the next invocation to start
NextRacer(id) ==
  /\ running[id].kind = "idle"
  /\ \A j \in Racers : j < id => running[j].kind # "idle"

\* a user types val into cell (row, col); the platform fires onEdit(e)
FireEdit(id, row, col, val) ==
  /\ NextRacer(id)
  /\ "Usuarios" \in sheets
  /\ usuarios' = [usuarios EXCEPT ![row][col] = val]
  /\ running' = [running EXCEPT ![id] = [Idle EXCEPT !.kind = "onEdit", !.pc = "fired",
                                                      !.row = row, !.col = col]]
  /\ UNCHANGED <<sheets, config, audit, mails, events, now, nInv, stamped, last>>

\* handleUserEdit reads the row of its event and builds the user object
ReadRow(id) ==
  /\ running[id].kind = "onEdit" /\ running[id].pc = "fired"
  /\ running' = [running EXCEPT ![id].pc = "read",
                                 ![id].user = UserOf(usuarios[running[id].row])]
  /\ UNCHANGED <<sheets, usuarios, config, audit, mails, events, now, nInv, stamped, last>>

\* handleUserEdit acts on the user object it has built
Dispatch(id) ==
  /\ running[id].kind = "onEdit" /\ running[id].pc = "read"
  /\ LET r == running[id]
         w0 == Log(Log(Log(World(EnvOk), "onEdit", "call"), "handleUserEdit", "call"),
                   "getValues", "call")
     IN  \E w \in {capturar(clasificar(w0, r.user, r.row, r.col))} :
           /\ Effects(w, [NoLast EXCEPT !.kind = "onEdit", !.sheet = "Usuarios",
                                        !.row = r.row, !.col = r.col,
                                        !.data = usuarios[r.row], !.user = r.user])
           /\ running' = [running EXCEPT ![id].pc = "done", ![id].trace = w.trace]

\* the time trigger fires; the sweep reads the users
FireSweep(id) ==
  /\ NextRacer(id)
  /\ running' = [running EXCEPT ![id] = [Idle EXCEPT !.kind = "sweep", !.pc = "read",
                                                      !.users = getUsers(World(EnvOk))]]
  /\ UNCHANGED <<sheets, usuarios, config, audit, mails, events, now, nInv, stamped, last>>

\* the sweep scans the users it has read and reports
FinishSweep(id) ==
  /\ running[id].kind = "sweep" /\ running[id].pc = "read"
  /\ LET w0 == Log(World(EnvOk), "verificarUsuariosInactivos", "call")
     IN  \E w \in {reportar(w0, running[id].users)} :
           /\ Effects(w, [NoLast EXCEPT !.kind = "verificarUsuariosInactivos"])
           /\ running' = [running EXCEPT ![id].pc = "done", ![id].trace = w.trace]

NextRace ==
  \E id \in Racers :
    \/ \E row \in Rows, e \in RaceEdits : FireEdit(id, row, e[1], e[2])
    \/ ReadRow(id)
    \/ Dispatch(id)
    \/ FireSweep(id)
    \/ FinishSweep(id)

SpecRace == InitRace /\ [][NextRace]_vars

-----------------------------------------------------------------------------
(* Actions: the Name column is edited (a user renamed, a row emptied) while  *)
(* sweeps run                                                                *)

NameEdits == {St(<<"Eva">>), Empty}

NextRename ==
  \E id \in Racers :
    \/ \E row \in Rows, val \in NameEdits : FireEdit(id, row, 1, val)
    \/ ReadRow(id)
    \/ Dispatch(id)
    \/ FireSweep(id)
    \/ FinishSweep(id)

SpecRename == InitRace /\ [][NextRename]_vars

-----------------------------------------------------------------------------
(* Actions: the sheet Configuracion is edited while processNewUser runs,     *)
(* between its welcome mail and its onboarding event. The services complete. *)

ConfigSwitches ==
  {[ConfigOn EXCEPT !.notificarAdmins = St(n), !.crearEventoCalendar = St(c)] :
     n \in {<<"TRUE">>, <<"FALSE">>}, c \in {<<"TRUE">>, <<"FALSE">>}}

InitConfig ==
  /\ InitCommon
  /\ sheets = AllSheets
  /\ config \in ConfigSwitches
  /\ usuarios = [r \in Rows |-> IF r = 2 THEN NewRow ELSE EmptyRow]

\* faulty variant: the config an earlier call of the invocation has read is
\* used again
hojaConfiguracion_Cached(leida) == leida

\* getConfig() reads the sheet Configuracion each time it is called: the
\* parameters as the sheet holds them now, whatever an earlier call has read
hojaConfiguracion(leida) == config

\* an administrator changes a parameter of the sheet Configuracion
CambiarConfig(key, val) ==
  /\ config[key] # val
  /\ config' = [config EXCEPT ![key] = val]
  /\ UNCHANGED <<sheets, usuarios, audit, mails, events, now, nInv, stamped, last, running>>

\* processNewUser starts: the stamps, the audit row, the welcome mail
IniciarNuevoUsuario(id) ==
  /\ NextRacer(id)
  /\ \E w \in {registrarNuevoUsuario(World(EnvOk), ProcUser, 2)} :
       /\ Effects(w, [NoLast EXCEPT !.kind = "processNewUser", !.user = ProcUser, !.row = 2])
       /\ running' = [running EXCEPT ![id] = [Idle EXCEPT !.kind = "processNewUser",
                                                           !.pc = "notified", !.row = 2,
                                                           !.user = ProcUser,
                                                           !.config = config,
                                                           !.trace = w.trace]]

\* processNewUser goes on: the onboarding event
AgendarNuevoUsuario(id) ==
  /\ running[id].kind = "processNewUser" /\ running[id].pc = "notified"
  /\ LET r == running[id]
         n == [World(EnvOk) EXCEPT !.config = hojaConfiguracion(r.config),
                                   !.trace = r.trace]
     IN  \E w \in {agendarOnboarding(n, r.user)} :
           /\ Effects(w, [NoLast EXCEPT !.kind = "processNewUser", !.user = r.user,
                                        !.row = r.row])
           /\ running' = [running EXCEPT ![id].pc = "done", ![id].trace = w.trace]

NextConfig ==
  \/ \E key \in {"notificarAdmins", "crearEventoCalendar"},
        val \in {St(<<"TRUE">>), St(<<"FALSE">>)} : CambiarConfig(key, val)
  \/ \E id \in Racers : IniciarNuevoUsuario(id) \/ AgendarNuevoUsuario(id)

SpecConfig == InitConfig /\ [][NextConfig]_vars

-----------------------------------------------------------------------------
(* Actions: edits of the Active column, with everything a cell of that      *)
(* column can hold                                                          *)

ActiveValues ==
  {B(TRUE), B(FALSE), St(<<"TRUE">>), St(<<"true">>), St(<<"True">>),
   St(<<"FALSE">>), Empty}

NextActive == \E row \in Rows, val \in ActiveValues : EditUsuarios(row, 5, val)

SpecActive == Init /\ [][NextActive]_vars

-----------------------------------------------------------------------------
(* Properties *)

\* how often the last invocation logged f with result r
Count(f, r) ==
  Cardinality({i \in 1..Len(last.trace) : last.trace[i].f = f /\ last.trace[i].r = r})

Calls(f) == Count(f, "call")

\* the last invocation was the edit trigger for a data row of Usuarios
EditedDataRow == last.kind = "onEdit" /\ last.row \in Rows

\* the name, email, role and group cells the handler read are non-empty after trimming
RowComplete == \A c \in 1..4 : Trim(JsToString(last.data[c])) # <<>>

DateRegisteredAbsent == last.data[6] = Empty

DateRegisteredPresent == last.data[6].t = "date"

C2_NoSecondNewUser ==
  (EditedDataRow /\ last.col \in 1..5 /\ last.wasStamped) => Calls("processNewUser") = 0

\* a row stamped by an earlier invocation was edited again, complete as before
C2_Witness ==
  /\ EditedDataRow /\ last.col \in 1..5 /\ last.wasStamped /\ RowComplete
  /\ Calls("processNewUser") = 0

\* C3: an edit to the Active column that leaves a false value on a row that
\* is not complete and has no dateRegistered (a row being created) calls no
\* processor, processInactiveUser in particular.
C3_NoDeactivationMidCreation ==
  (/\ EditedDataRow /\ last.col = 5 /\ last.data[5] \in {B(FALSE), St(<<"FALSE">>)}
   /\ DateRegisteredAbsent /\ ~RowComplete)
    => /\ Calls("processInactiveUser") = 0
       /\ Calls("processNewUser") = 0
       /\ Calls("notifyRoleChange") = 0

\* C4: on a row with dateRegistered present, an edit to the Active column
\* with a false value dispatches processInactiveUser exactly once and nothing
\* else; with a true value it dispatches nothing.
C4_DeactivationOnRegisteredRow ==
  (EditedDataRow /\ last.col = 5 /\ DateRegisteredPresent)
    => /\ last.data[5] \in {B(FALSE), St(<<"FALSE">>)}
            => /\ Calls("processInactiveUser") = 1
               /\ Calls("processNewUser") = 0
               /\ Calls("notifyRoleChange") = 0
       /\ last.data[5] \in {B(TRUE), St(<<"TRUE">>)}
            => /\ Calls("processInactiveUser") = 0
               /\ Calls("processNewUser") = 0
               /\ Calls("notifyRoleChange") = 0

\* a registered row was deactivated by hand
C4_Witness ==
  /\ EditedDataRow /\ last.col = 5 /\ DateRegisteredPresent
  /\ last.data[5] = B(FALSE)
  /\ Calls("processInactiveUser") = 1

\* C5: on a row with dateRegistered present, every edit to the Role column
\* dispatches notifyRoleChange exactly once, whatever the new role, and no
\* other processor.
C5_RoleChangeOnRegisteredRow ==
  (EditedDataRow /\ last.col = 3 /\ DateRegisteredPresent)
    => /\ Calls("notifyRoleChange") = 1
       /\ Calls("processNewUser") = 0
       /\ Calls("processInactiveUser") = 0

\* the role of a registered row was emptied, and the change was processed
C5_Witness ==
  /\ EditedDataRow /\ last.col = 3 /\ DateRegisteredPresent
  /\ last.data[3] = Empty
  /\ Calls("notifyRoleChange") = 1

\* the audit log, the mailbox and the calendar grew by one row, one mail, one
\* event in the last invocation
AuditAppended == Len(audit) = last.audit0 + 1

MailSent == Len(mails) = last.mails0 + 1

EventCreated == Len(events) = last.events0 + 1

IsAdmin == last.user.role = <<"Admin">>

\* the audit row of a role change: Warning for Admin, OK otherwise, and never
\* more than one row
RoleAuditStatus ==
  /\ Len(audit) \in {last.audit0, last.audit0 + 1}
  /\ AuditAppended =>
       /\ audit[Len(audit)].type = <<"ROL_MODIFICADO">>
       /\ audit[Len(audit)].status = IF IsAdmin THEN <<"WARNING">> ELSE <<"OK">>

\* C6 as stated: for every role change processing the audit row has status
\* Warning iff the new role is "Admin" (OK otherwise), and a plain-text alert
\* is sent iff the new role is "Admin".
C6_AlertSentIffAdmin ==
  last.kind = "notifyRoleChange"
    => /\ RoleAuditStatus
       /\ (MailSent /\ mails[Len(mails)].kind = "plain") <=> IsAdmin

\* C6 amended: the audit row has status Warning iff the new role is "Admin"
\* (OK otherwise), and the plain-text alert is requested from the gateway
\* (sendNotification is called, once) iff the new role is "Admin"; a mail
\* leaves only for Admin, and exactly when that call returns true.
C6_AlertRequestedIffAdmin ==
  last.kind = "notifyRoleChange"
    => /\ RoleAuditStatus
       /\ Calls("sendNotification") = IF IsAdmin THEN 1 ELSE 0
       /\ Len(mails) \in {last.mails0, last.mails0 + 1}
       /\ MailSent <=> (IsAdmin /\ Count("sendNotification", "true") = 1)
       /\ MailSent => mails[Len(mails)].kind = "plain"

\* a change to Admin with notifications switched off: the row says Warning,
\* the alert was requested, no mail left
C6_Witness ==
  /\ last.kind = "notifyRoleChange" /\ IsAdmin
  /\ AuditAppended /\ audit[Len(audit)].status = <<"WARNING">>
  /\ Calls("sendNotification") = 1
  /\ ~MailSent
  /\ "Configuracion" \in sheets /\ config.notificarAdmins = St(<<"FALSE">>)

\* the steps of processNewUser the last invocation attempted, in order
IsStep(t) ==
  \/ t.f \in {"setValue(6)", "setValue(7)"}
  \/ t.f \in {"logEvent", "sendHtmlNotification", "createCalendarEvent"} /\ t.r = "call"

Steps == SelectSeq(last.trace, IsStep)

StepOrder ==
  <<"setValue(6)", "setValue(7)", "logEvent", "sendHtmlNotification", "createCalendarEvent">>

C8_ScheduleAfterFailedMail ==
  (last.kind = "processNewUser" /\ Calls("sendHtmlNotification") = 1 /\ ~MailSent)
    => Calls("createCalendarEvent") = 1

\* the mail transport threw, and the calendar event was created all the same
C8_Witness ==
  /\ last.kind = "processNewUser"
  /\ Count("GmailApp.sendEmail", "throw") = 1
  /\ ~MailSent
  /\ Calls("createCalendarEvent") = 1
  /\ EventCreated

Gateways == {"sendNotification", "sendHtmlNotification", "createCalendarEvent"}

\* C9: a gateway never raises to its caller; it returns exactly once, true
\* when and only when the external send / create call completed, and false
\* for a disabled flag, a failed validation, a transport that throws and a
\* configuration read that throws.
C9_GatewaysNeverRaise ==
  last.kind \in Gateways
    => /\ ~last.thrown
       /\ Count(last.kind, "true") + Count(last.kind, "false") = 1
       /\ Count(last.kind, "true") = 1
            <=> IF last.kind = "createCalendarEvent" THEN EventCreated ELSE MailSent
       /\ (\/ Count("getConfig", "throw") > 0
           \/ Count("GmailApp.sendEmail", "throw") > 0
           \/ Count("calendar.createEvent", "throw") > 0)
            => Count(last.kind, "false") = 1
       /\ "Configuracion" \in sheets =>
            /\ (last.kind # "createCalendarEvent"
                  /\ config.notificarAdmins \notin {B(TRUE), St(<<"TRUE">>)})
                 => Count(last.kind, "false") = 1
            /\ (last.kind = "sendNotification" /\ config.emailNotificacion = St(InvalidEmail))
                 => Count(last.kind, "false") = 1
            /\ (last.kind = "createCalendarEvent"
                  /\ (\/ config.crearEventoCalendar \notin {B(TRUE), St(<<"TRUE">>)}
                      \/ config.calendarioId = St(<<"otro">>)))
                 => Count(last.kind, "false") = 1

\* the config sheet is missing: sendNotification returned false, nothing raised
C9_Witness ==
  /\ last.kind = "sendNotification"
  /\ Count("getConfig", "throw") = 1
  /\ Count("sendNotification", "false") = 1
  /\ ~last.thrown

\* the gateway calls of the last invocation
GatewayCalls ==
  Calls("sendNotification") + Calls("sendHtmlNotification") + Calls("createCalendarEvent")

\* C10 as stated: with the sheet Configuracion absent, an operation that
\* depends on the config (it calls a gateway) ends in an error.
C10_ConfigErrorFatal ==
  ("Configuracion" \notin sheets /\ GatewayCalls > 0) => last.thrown

\* C10 amended: with the sheet Configuracion absent getConfig raises, which is
\* fatal to a direct caller (pruebaConfiguracion ends in an error); the
\* gateways catch it and return false, so NewUser, Deactivation, Admin
\* RoleChange and digest processing complete normally, without a mail or a
\* calendar event.
C10_ConfigErrorCaughtByGateways ==
  "Configuracion" \notin sheets
    => /\ last.kind = "pruebaConfiguracion"
            => last.thrown /\ Count("getConfig", "throw") = 1
       /\ GatewayCalls > 0
            => /\ Count("getConfig", "throw") = GatewayCalls
               /\ \A g \in Gateways : Count(g, "false") = Calls(g)
               /\ ~last.thrown
               /\ ~MailSent /\ ~EventCreated
               /\ Len(mails) = last.mails0 /\ Len(events) = last.events0

\* a new user processed without the config sheet: both gateways hit the
\* error, the processor returned normally
C10_Witness ==
  /\ "Configuracion" \notin sheets
  /\ last.kind = "processNewUser"
  /\ Calls("sendHtmlNotification") = 1 /\ Calls("createCalendarEvent") = 1
  /\ Count("getConfig", "throw") = 2
  /\ ~last.thrown

Processors == {"processNewUser", "processInactiveUser", "notifyRoleChange"}

\* the last invocation called logEvent and the row could not be written
AuditWriteFailed ==
  /\ Calls("logEvent") >= 1
  /\ "RegistroDeEventos" \notin sheets \/ Count("appendRow", "throw") > 0

\* C11: logEvent never raises to its caller, whether the sheet
\* RegistroDeEventos is missing or the append throws; a processor whose audit
\* write failed ends without an error, no row was written, and it still calls
\* its notification and scheduling steps.
C11_AuditBestEffort ==
  (last.kind \in Processors /\ AuditWriteFailed)
    => /\ ~last.thrown
       /\ Len(audit) = last.audit0
       /\ last.kind = "processNewUser"
            => Calls("sendHtmlNotification") = 1 /\ Calls("createCalendarEvent") = 1
       /\ last.kind = "processInactiveUser" => Calls("sendNotification") = 1
       /\ last.kind = "notifyRoleChange"
            => Calls("sendNotification") = IF IsAdmin THEN 1 ELSE 0

\* the append threw while a new user was processed: the mail and the event
\* went out all the same
C11_Witness ==
  /\ last.kind = "processNewUser"
  /\ Count("appendRow", "throw") = 1
  /\ Len(audit) = last.audit0
  /\ MailSent /\ EventCreated
  /\ ~last.thrown

\* an exception reached the catch block of onEdit in the last invocation
EditException == Count("setValue(6)", "throw") + Count("setValue(7)", "throw") > 0

\* C12: onEdit never propagates a failure and never writes to columns 1..5:
\* whatever is raised while an edit is handled, it returns normally, every
\* cell of columns 1..5 is as it was before, the edited cell as the user wrote
\* it, and exactly when something was raised it appends one audit row of type
\* ERROR with status ERROR, provided the audit sheet takes the row.
C12_EditNeverFails ==
  [][last'.kind = "onEdit"
       => /\ ~last'.thrown
          /\ \A r \in DOMAIN usuarios : \A c \in 1..5 :
               usuarios'[r][c] = IF r = last'.row /\ c = last'.col
                                 THEN last'.data[c] ELSE usuarios[r][c]
          /\ LET raised == \E i \in 1..Len(last'.trace) :
                             /\ last'.trace[i].f \in {"setValue(6)", "setValue(7)"}
                             /\ last'.trace[i].r = "throw"
                 taken == /\ "RegistroDeEventos" \in sheets'
                          /\ \A i \in 1..Len(last'.trace) :
                               ~(last'.trace[i].f = "appendRow" /\ last'.trace[i].r = "throw")
             IN  /\ (raised /\ taken)
                      => /\ Len(audit') = Len(audit) + 1
                         /\ audit'[Len(audit')].type = <<"ERROR">>
                         /\ audit'[Len(audit')].status = <<"ERROR">>
                 /\ (raised /\ ~taken) => audit' = audit
                 /\ ~raised => \A i \in Len(audit) + 1 .. Len(audit') :
                                  audit'[i].type # <<"ERROR">>]_vars

\* the second stamp of processNewUser threw: onEdit returned normally, the
\* edited cell is as written and the audit log ends with the ERROR row
C12_Witness ==
  /\ last.kind = "onEdit" /\ last.col \in 1..5
  /\ Count("setValue(7)", "throw") = 1
  /\ ~last.thrown
  /\ usuarios[last.row][last.col] = last.data[last.col]
  /\ AuditAppended
  /\ audit[Len(audit)].type = <<"ERROR">> /\ audit[Len(audit)].status = <<"ERROR">>

\* how often f was logged with result r in trace
CountIn(trace, f, r) ==
  Cardinality({i \in 1..Len(trace) : trace[i].f = f /\ trace[i].r = r})

\* floor(|today - lastAccess| / one day) of a user whose lastAccess is a date
DaysInactive(u, today) ==
  (IF today >= u.lastAccess.v THEN today - u.lastAccess.v ELSE u.lastAccess.v - today)
    \div DayHours

\* the user is active and has been away for more than 7 days
IsStale(u, today) ==
  u.active /\ u.lastAccess.t = "date" /\ DaysInactive(u, today) > 7

\* every active user of the list has a date of last access
AllDated(users) ==
  \A i \in 1..Len(users) : users[i].active => users[i].lastAccess.t = "date"

\* the users of the registry as a sweep reads them
UsersRead == getUsers(World(EnvOk))

\* the stale ones among them, as the entries of the digest
StaleBatch(users, today) ==
  LET stale == SelectSeq(users, LAMBDA u : IsStale(u, today))
  IN  [i \in 1..Len(stale) |->
         [name |-> stale[i].name, group |-> stale[i].group,
          days |-> DaysInactive(stale[i], today)]]

\* the audit log grew by one USUARIO_INACTIVO row for each entry of the batch
InactiveRowsFor(batch, before, after) ==
  /\ Len(after) = Len(before) + Len(batch)
  /\ \A i \in 1..Len(batch) :
       /\ after[Len(before) + i].type = <<"USUARIO_INACTIVO">>
       /\ after[Len(before) + i].user = JsToString(batch[i].name)

\* C13 as stated: a sweep with no concurrent invocation deactivates exactly the
\* users that are active and more than 7 days away, appends one
\* USUARIO_INACTIVO audit row for each, sends exactly one digest listing them
\* with their day counts, and sends none when nobody is stale.
C13_SweepDeactivatesStale ==
  [][(last'.kind = "verificarUsuariosInactivos" /\ AllDated(UsersRead))
       => LET batch == StaleBatch(UsersRead, now')
          IN  /\ \A r \in DOMAIN usuarios :
                   usuarios'[r] =
                     IF Truthy(usuarios[r][1]) /\ IsStale(UserRecord(usuarios[r]), now')
                     THEN [usuarios[r] EXCEPT ![5] = St(<<"FALSE">>)]
                     ELSE usuarios[r]
              /\ InactiveRowsFor(batch, audit, audit')
              /\ Len(mails') = Len(mails) + (IF Len(batch) > 0 THEN 1 ELSE 0)
              /\ Len(batch) > 0 => mails'[Len(mails')].body = tabla(batch)]_vars

\* C13 amended: a sweep with no concurrent invocation processes exactly the
\* user records that are active and more than 7 days away: for each it sets
\* Active to 'FALSE' in the first row that carries the record's name, and asks
\* for one USUARIO_INACTIVO audit row (written when the audit sheet takes it);
\* it asks for exactly one digest listing them with their day counts (the mail
\* leaves when the gateway succeeds), and for none when nobody is stale.
C13_SweepProcessesStale ==
  [][(last'.kind = "verificarUsuariosInactivos" /\ AllDated(UsersRead))
       => LET batch == StaleBatch(UsersRead, now')
              trace == last'.trace
              first(r) == \E i \in 1..Len(batch) :
                            /\ usuarios[r][1] = batch[i].name
                            /\ \A q \in DOMAIN usuarios :
                                 q < r => usuarios[q][1] # batch[i].name
              taken == /\ "RegistroDeEventos" \in sheets
                       /\ CountIn(trace, "appendRow", "throw") = 0
          IN  /\ ~last'.thrown
              /\ \A r \in DOMAIN usuarios :
                   usuarios'[r] = IF first(r) THEN [usuarios[r] EXCEPT ![5] = St(<<"FALSE">>)]
                                  ELSE usuarios[r]
              /\ CountIn(trace, "setValue(5)", "call") = Len(batch)
              /\ CountIn(trace, "logEvent", "call") = Len(batch)
              /\ IF taken THEN InactiveRowsFor(batch, audit, audit') ELSE audit' = audit
              /\ CountIn(trace, "enviarReporteInactivos", "call")
                   = (IF Len(batch) > 0 THEN 1 ELSE 0)
              /\ Len(mails') = Len(mails) + CountIn(trace, "sendHtmlNotification", "true")
              /\ Len(mails') > Len(mails)
                   => /\ Len(mails') = Len(mails) + 1
                      /\ mails'[Len(mails')].body = tabla(batch)]_vars

\* two users of different names deactivated in one run: two audit rows, one
\* digest with two entries
C13_Witness ==
  /\ last.kind = "verificarUsuariosInactivos"
  /\ Count("setValue(5)", "call") = 2
  /\ Len(audit) = last.audit0 + 2
  /\ audit[Len(audit)].user # audit[Len(audit) - 1].user
  /\ MailSent
  /\ Len(mails[Len(mails)].body) = 8
  /\ \A r \in DOMAIN usuarios : usuarios[r][5] = St(<<"FALSE">>)

\* C14: an active user whose lastAccess cell is empty counts as stale (a day
\* count above the threshold of 7) and the sweep deactivates it: after a
\* sweep no user with an empty lastAccess is active.
C14_AbsentLastAccessIsStale ==
  last.kind = "verificarUsuariosInactivos"
    => \A r \in DOMAIN usuarios :
         (Truthy(usuarios[r][1]) /\ ~Truthy(usuarios[r][7]))
           => ~ActiveCell(usuarios[r][5])

\* the steps of a sweep, in the order the last invocation took them
IsSweepStep(t) ==
  /\ t.r = "call"
  /\ t.f \in {"setValue(5)", "logEvent", "usuariosInactivos.push", "enviarReporteInactivos"}

SweepSteps == SelectSeq(last.trace, IsSweepStep)

C16_DigestOnceAfterScan ==
  last.kind = "verificarUsuariosInactivos"
    => /\ Calls("enviarReporteInactivos") <= 1
       /\ Calls("enviarReporteInactivos") = 1 <=> Count("setValue(5)", "call") >= 1
       /\ \A i, j \in 1..Len(last.trace) :
            (/\ last.trace[i].f = "enviarReporteInactivos"
             /\ last.trace[j].f \in {"setValue(5)", "logEvent", "appendRow",
                                     "usuariosInactivos.push"})
              => j < i
       /\ Count("usuariosInactivos.push", "call") = Count("setValue(5)", "call")
       /\ MailSent
            => Len(mails[Len(mails)].body) = 4 * Count("usuariosInactivos.push", "call")

\* two users deactivated while the audit log refuses the rows: one digest,
\* sent after the scan, with both entries
C16_Witness ==
  /\ last.kind = "verificarUsuariosInactivos"
  /\ Count("setValue(5)", "call") = 2
  /\ Count("appendRow", "throw") = 2
  /\ Calls("enviarReporteInactivos") = 1
  /\ last.trace[Len(last.trace)].f = "sendHtmlNotification"
  /\ MailSent
  /\ Len(mails[Len(mails)].body) = 8

\* the audit rows of type t written for user u
AuditRows(t, u) ==
  Cardinality({i \in 1..Len(audit) : audit[i].type = t /\ audit[i].user = u})

\* the mails of kind k whose body mentions token x
MailsWith(k, x) ==
  Cardinality({i \in 1..Len(mails) :
                 /\ mails[i].kind = k
                 /\ \E j \in 1..Len(mails[i].body) : mails[i].body[j] = x})

\* invocation r was an onEdit that has finished, for an edit of columns 1..5
\* of a row it read as complete and without dateRegistered
ReadAsNew(r) ==
  /\ r.kind = "onEdit" /\ r.pc = "done"
  /\ r.col \in 1..5
  /\ Len(r.user.name) > 0 /\ Len(r.user.email) > 0
  /\ Len(r.user.role) > 0 /\ Len(r.user.group) > 0
  /\ ~Truthy(r.user.dateRegistered)

\* both invocations were edits of different columns of one row, and both read
\* the row as complete and without dateRegistered
BothReadAsNew ==
  /\ ReadAsNew(running[1]) /\ ReadAsNew(running[2])
  /\ running[1].row = running[2].row
  /\ running[1].col # running[2].col
  /\ running[1].user.name = running[2].user.name

\* C17: race (a). Two overlapping edit invocations on different columns of one
\* complete, unregistered row can both read dateRegistered as absent, and
\* whenever they do, both run the NewUser processor: the row is stamped twice,
\* and it gets two USUARIO_AGREGADO audit rows, two welcome mails and two
\* onboarding events.
C17_RaceDoubleNewUser ==
  BothReadAsNew
    => /\ \A i \in Racers :
            /\ CountIn(running[i].trace, "processNewUser", "call") = 1
            /\ CountIn(running[i].trace, "setValue(6)", "call") = 1
            /\ CountIn(running[i].trace, "setValue(7)", "call") = 1
            /\ CountIn(running[i].trace, "sendHtmlNotification", "call") = 1
            /\ CountIn(running[i].trace, "createCalendarEvent", "call") = 1
       /\ AuditRows(<<"USUARIO_AGREGADO">>, running[1].user.name) = 2
       /\ MailsWith("html", running[1].user.name[1]) = 2
       /\ Len(events) = 2

\* the interleaving exists
C17_Witness ==
  /\ BothReadAsNew
  /\ AuditRows(<<"USUARIO_AGREGADO">>, <<"Ana">>) = 2
  /\ Len(mails) = 2
  /\ Len(events) = 2
  /\ Truthy(usuarios[running[1].row][6])

\* invocation r was a sweep that has finished and had read the user called
\* name as active and stale
ReadAsStale(r, name) ==
  /\ r.kind = "sweep" /\ r.pc = "done"
  /\ \E i \in 1..Len(r.users) :
       r.users[i].name = name /\ IsStale(r.users[i], now)

\* C18: race (b). Two overlapping sweeps can both read the same stale user as
\* active, and whenever they do, both deactivate it (no lock and no condition
\* on the write stops the second): the user gets two USUARIO_INACTIVO audit
\* rows and is listed in two digests.
C18_RaceDoubleDeactivation ==
  \A r \in DOMAIN usuarios :
    (ReadAsStale(running[1], usuarios[r][1]) /\ ReadAsStale(running[2], usuarios[r][1]))
      => /\ \A i \in Racers :
              /\ CountIn(running[i].trace, "setValue(5)", "call") >= 1
              /\ CountIn(running[i].trace, "logEvent", "call") >= 1
              /\ CountIn(running[i].trace, "enviarReporteInactivos", "call") = 1
         /\ AuditRows(<<"USUARIO_INACTIVO">>, JsToString(usuarios[r][1])) = 2
         /\ MailsWith("html", JsToString(usuarios[r][1])[1]) = 2

\* the interleaving exists
C18_Witness ==
  /\ ReadAsStale(running[1], St(<<"Ana">>)) /\ ReadAsStale(running[2], St(<<"Ana">>))
  /\ AuditRows(<<"USUARIO_INACTIVO">>, <<"Ana">>) = 2
  /\ Len(mails) = 2
  /\ \E r \in DOMAIN usuarios : usuarios[r][5] = St(<<"FALSE">>)

\* the place of row r among the records getUsers returns
IndexOfRow(r) == Cardinality({q \in DOMAIN usuarios : q <= r /\ Truthy(usuarios[q][1])})

\* C19: round trip. After processNewUser has stamped a row whose Active cell
\* holds the boolean true or the text "TRUE", getUsers returns a record for
\* that row with active = true and with dateRegistered and lastAccess both
\* filled in.
C19_NewUserReadBack ==
  (/\ last.kind = "onEdit"
   /\ Count("setValue(6)", "call") = 1 /\ Count("setValue(7)", "call") = 1
   /\ usuarios[last.row][5] \in {B(TRUE), St(<<"TRUE">>)})
    => LET users == getUsers(World(EnvOk))
           i == IndexOfRow(last.row)
       IN  /\ i \in 1..Len(users)
           /\ users[i].name = usuarios[last.row][1]
           /\ users[i].active = TRUE
           /\ users[i].dateRegistered = D(now)
           /\ users[i].lastAccess = D(now)

\* a row with Active stored as the text "TRUE" was processed and reads back
\* as active, with both dates
C19_Witness ==
  /\ last.kind = "onEdit"
  /\ Calls("processNewUser") = 1
  /\ Count("setValue(7)", "call") = 1
  /\ usuarios[last.row][5] = St(<<"TRUE">>)
  /\ Len(getUsers(World(EnvOk))) >= 1
  /\ getUsers(World(EnvOk))[IndexOfRow(last.row)].active
  /\ Truthy(getUsers(World(EnvOk))[IndexOfRow(last.row)].lastAccess)

\* the Active cell holds the word true in some letter case
AnyCaseTrue(x) == x \in {St(<<"TRUE">>), St(<<"true">>), St(<<"True">>)}

\* C20 as stated: the Active cell is read as true for the boolean true and
\* for the text "true" in every letter case, as false for anything else; an
\* Active edit to any casing of "true" on a registered row yields no
\* Deactivation.
C20_ActiveAnyCase ==
  (last.kind = "onEdit" /\ last.col = 5 /\ last.row \in DOMAIN usuarios)
    => /\ last.user.active <=> (last.data[5] = B(TRUE) \/ AnyCaseTrue(last.data[5]))
       /\ (Truthy(last.data[6]) /\ AnyCaseTrue(last.data[5]))
            => Calls("processInactiveUser") = 0

\* C20 amended: the Active cell is read as true for the boolean true and for
\* the texts "TRUE" and "true" only, as false for anything else ("True"
\* included); an Active edit on a registered row yields no Deactivation for
\* those three values and one Deactivation for every other value.
C20_ActiveTwoCasings ==
  (last.kind = "onEdit" /\ last.col = 5 /\ last.row \in DOMAIN usuarios)
    => LET accepted == last.data[5] \in {B(TRUE), St(<<"TRUE">>), St(<<"true">>)}
       IN  /\ last.user.active <=> accepted
           /\ Truthy(last.data[6])
                => Calls("processInactiveUser") = IF accepted THEN 0 ELSE 1

\* "true" typed in lower case on a registered row: no Deactivation
C20_Witness ==
  /\ last.kind = "onEdit" /\ last.col = 5
  /\ Truthy(last.data[6])
  /\ last.data[5] = St(<<"true">>)
  /\ last.user.active
  /\ Calls("processInactiveUser") = 0

\* C21: an edit of the header row (row 1) yields no event: handleUserEdit
\* returns before it reads the row, and the invocation writes no cell of the
\* registry, appends no audit row and calls no gateway, whatever the column
\* and the contents of the cell.
C21_HeaderEditIgnored ==
  [][(last'.kind = "onEdit" /\ last'.row = 1)
       => /\ last'.trace = <<[f |-> "onEdit", r |-> "call"],
                             [f |-> "handleUserEdit", r |-> "call"]>>
          /\ ~last'.thrown
          /\ usuarios' = usuarios
          /\ audit' = audit
          /\ mails' = mails
          /\ events' = events]_vars

\* the header of the Active column was edited while a complete row was
\* waiting for its registration: nothing was called, the row is as it was
C21_Witness ==
  /\ last.kind = "onEdit" /\ last.row = 1 /\ last.col = 5
  /\ Calls("handleUserEdit") = 1
  /\ Calls("getValues") = 0
  /\ usuarios[2] = NewRow
  /\ audit = <<>> /\ mails = <<>> /\ events = <<>>

\* C22: the audit log is append-only. Whatever runs (the edit trigger, the
\* sweep, a processor), the rows the log held are still there, unchanged and
\* in place; the new rows come after them, at most one for each call of
\* logEvent (one for each appendRow that completed), and each carries the
\* time of its writing.
C22_AuditAppendOnly ==
  [][/\ Len(audit') >= Len(audit)
     /\ SubSeq(audit', 1, Len(audit)) = audit
     /\ audit' # audit
          => /\ Len(audit') - Len(audit) = CountIn(last'.trace, "appendRow", "call")
             /\ Len(audit') - Len(audit) <= CountIn(last'.trace, "logEvent", "call")
             /\ \A i \in Len(audit) + 1 .. Len(audit') : audit'[i].ts = now']_vars

\* a later invocation has appended to a log that held a row of another kind
C22_Witness ==
  /\ last.audit0 >= 1
  /\ Len(audit) > last.audit0
  /\ audit[1].type # audit[Len(audit)].type
  /\ audit[Len(audit)].ts = now

\* how often the last invocation entered f, whether f completed or threw
Attempts(f) == Count(f, "call") + Count(f, "throw")

\* C23: no gateway call is retried. In one invocation of a processor each
\* gateway is called at most once and the service behind it is tried at most
\* once, also when the call fails: processNewUser one HTML mail and one
\* calendar event, processInactiveUser and notifyRoleChange one plain mail,
\* the digest one HTML mail.
C23_NoGatewayRetry ==
  /\ last.kind = "processNewUser"
       => /\ Calls("sendHtmlNotification") <= 1 /\ Calls("createCalendarEvent") <= 1
          /\ Calls("sendNotification") = 0
          /\ Attempts("GmailApp.sendEmail") <= 1
          /\ Attempts("calendar.createEvent") <= 1
  /\ last.kind \in {"processInactiveUser", "notifyRoleChange"}
       => /\ Calls("sendNotification") <= 1
          /\ Calls("sendHtmlNotification") = 0 /\ Calls("createCalendarEvent") = 0
          /\ Attempts("GmailApp.sendEmail") <= 1
  /\ last.kind = "enviarReporteInactivos"
       => /\ Calls("sendHtmlNotification") <= 1
          /\ Calls("sendNotification") = 0 /\ Calls("createCalendarEvent") = 0
          /\ Attempts("GmailApp.sendEmail") <= 1
  /\ last.kind \in Processors \cup {"enviarReporteInactivos"}
       => /\ Len(mails) <= last.mails0 + 1
          /\ Len(events) <= last.events0 + 1

\* the alert of a deactivation failed in the mail service: one attempt, the
\* gateway returned false, no mail left
C23_Witness ==
  /\ last.kind = "processInactiveUser"
  /\ Count("GmailApp.sendEmail", "throw") = 1
  /\ Attempts("GmailApp.sendEmail") = 1
  /\ Count("sendNotification", "false") = 1
  /\ Len(mails) = last.mails0

\* the notification requests in a trace: calls of the two mail gateways
Requests(trace) ==
  CountIn(trace, "sendNotification", "call") + CountIn(trace, "sendHtmlNotification", "call")

\* C24: processors are not deduplicated. When a processor is invoked a second
\* time for the same user (neither invocation ends by raising), the second
\* invocation asks for its audit row and for its notification just as the
\* first did, whatever the first left behind: two logEvent calls, two rows in
\* the audit log when the sheet takes them, and two notification requests
\* (notifyRoleChange notifies for the role Admin only).
C24_NoDeduplication ==
  [][(/\ last.kind \in Processors /\ last'.kind = last.kind
      /\ last'.user = last.user /\ last'.row = last.row
      /\ ~last.thrown /\ ~last'.thrown)
       => LET notifies == last.kind = "notifyRoleChange" => last.user.role = <<"Admin">>
          IN  /\ CountIn(last.trace, "logEvent", "call") = 1
              /\ CountIn(last'.trace, "logEvent", "call") = 1
              /\ Len(audit') = last.audit0 + CountIn(last.trace, "appendRow", "call")
                                           + CountIn(last'.trace, "appendRow", "call")
              /\ ("RegistroDeEventos" \in sheets
                    /\ CountIn(last.trace, "appendRow", "throw") = 0
                    /\ CountIn(last'.trace, "appendRow", "throw") = 0)
                   => /\ Len(audit') = last.audit0 + 2
                      /\ audit'[Len(audit')].type = audit'[Len(audit') - 1].type
                      /\ audit'[Len(audit')].user = audit'[Len(audit') - 1].user
              /\ Requests(last.trace) = (IF notifies THEN 1 ELSE 0)
              /\ Requests(last'.trace) = (IF notifies THEN 1 ELSE 0)]_vars

\* the same user was deactivated twice: two rows for the user, two alerts
C24_Witness ==
  /\ last.kind = "processInactiveUser"
  /\ last.audit0 = 1 /\ Len(audit) = 2
  /\ audit[1].type = <<"USUARIO_INACTIVO">> /\ audit[2].type = <<"USUARIO_INACTIVO">>
  /\ audit[1].user = last.user.name /\ audit[2].user = last.user.name
  /\ last.mails0 = 1 /\ Len(mails) = 2
  /\ mails[1].kind = "plain" /\ mails[2].kind = "plain"

\* the date lies after the clock / on the day of the clock
InFuture(x) == x.t = "date" /\ x.v > now

SameDay(x) == x.t = "date" /\ x.v \div DayHours = now \div DayHours

\* C25: getDaysSinceLastAccess returns 0 for every lastAccess in the future
\* and for a lastAccess on the same day, so a user whose lastAccess lies in
\* the future is never stale: a sweep leaves such a user active.
C25_FutureLastAccessIsZeroDays ==
  \A r \in DOMAIN usuarios :
    /\ (InFuture(usuarios[r][7]) \/ SameDay(usuarios[r][7]))
         => getDaysSinceLastAccess(now, usuarios[r][7]) = Num(0)
    /\ (last.kind = "verificarUsuariosInactivos" /\ InFuture(usuarios[r][7]))
         => ActiveCell(usuarios[r][5])

\* the configuration as the sheet holds it: notifications switched on, and an
\* address of the shape local@domain.tld
NotifyOn == config.notificarAdmins \in {B(TRUE), St(<<"TRUE">>)}

AddressWellFormed == config.emailNotificacion = St(ValidEmail)

ScheduleOn == config.crearEventoCalendar \in {B(TRUE), St(<<"TRUE">>)}

CalendarResolves == config.calendarioId = St(<<"primary">>)

\* C27: createCalendarEvent creates an event only when scheduling is on
\* (crearEventoCalendar is true or "TRUE") and the configured calendar id
\* resolves to a calendar; in every other case it creates nothing and returns
\* false.
C27_EventOnlyWhenEnabledAndResolved ==
  last.kind = "createCalendarEvent"
    => LET ok == "Configuracion" \in sheets /\ ScheduleOn /\ CalendarResolves
       IN  /\ ~last.thrown
           /\ Attempts("calendar.createEvent") = (IF ok THEN 1 ELSE 0)
           /\ ~ok => /\ Len(events) = last.events0
                     /\ Count("createCalendarEvent", "false") = 1
                     /\ Count("createCalendarEvent", "true") = 0
           /\ IF Count("createCalendarEvent", "true") = 1
              THEN /\ ok
                   /\ Len(events) = last.events0 + 1
                   /\ events[Len(events)].cal = <<"primary">>
              ELSE /\ Len(events) = last.events0
                   /\ Count("createCalendarEvent", "false") = 1

\* scheduling is on as the boolean true, the calendar id names no calendar:
\* nothing created, false returned
C27_Witness ==
  /\ last.kind = "createCalendarEvent"
  /\ "Configuracion" \in sheets
  /\ config.crearEventoCalendar = B(TRUE) /\ config.calendarioId = St(<<"otro">>)
  /\ Count("createCalendarEvent", "false") = 1
  /\ Attempts("calendar.createEvent") = 0
  /\ Len(events) = last.events0

\* C28: the config is read afresh by every gateway call and never cached. A
\* parameter changed between two gateway calls, also between the two calls
\* of one processNewUser, is seen by the second call: the welcome mail leaves
\* iff notifications are on when sendHtmlNotification is called, and the
\* onboarding event is created iff scheduling is on when createCalendarEvent
\* is called, whatever the sheet held when the invocation started.
C28_ConfigReadPerCall ==
  [][\A id \in Racers :
       /\ (running[id].pc = "idle" /\ running'[id].pc = "notified")
            => /\ Len(mails') = Len(mails) + (IF NotifyOn THEN 1 ELSE 0)
               /\ CountIn(running'[id].trace, "sendHtmlNotification",
                          IF NotifyOn THEN "true" ELSE "false") = 1
       /\ (running[id].pc = "notified" /\ running'[id].pc = "done")
            => /\ Len(events') = Len(events) + (IF ScheduleOn THEN 1 ELSE 0)
               /\ CountIn(running'[id].trace, "createCalendarEvent",
                          IF ScheduleOn THEN "true" ELSE "false") = 1]_vars

\* scheduling was off when processNewUser sent its welcome mail and was
\* switched on before it came to the onboarding event: the event was created
C28_Witness ==
  \E id \in Racers :
    /\ running[id].kind = "processNewUser" /\ running[id].pc = "done"
    /\ running[id].config.crearEventoCalendar = St(<<"FALSE">>)
    /\ CountIn(running[id].trace, "sendHtmlNotification", "true") = 1
    /\ CountIn(running[id].trace, "createCalendarEvent", "true") = 1
    /\ Len(events) >= 1

\* no row of the registry carries the name
NameGone(name) == \A r \in DOMAIN usuarios : usuarios[r][1] # name

\* C29: when the row of a stale user can no longer be found by name at the
\* time the sweep looks it up (the user was renamed or the row emptied after
\* the sweep had read the users), the sweep writes no cell of the registry
\* for that user, but still appends the USUARIO_INACTIVO audit row and still
\* lists the user in the digest.
C29_LostRowStillAudited ==
  [][\A id \in Racers :
       (running[id].kind = "sweep" /\ running[id].pc = "read" /\ running'[id].pc = "done")
         => LET batch == StaleBatch(running[id].users, now)
                found == {i \in 1..Len(batch) : ~NameGone(batch[i].name)}
                trace == running'[id].trace
            IN  /\ CountIn(trace, "setValue(5)", "call") = Cardinality(found)
                /\ found = {} => usuarios' = usuarios
                /\ InactiveRowsFor(batch, audit, audit')
                /\ CountIn(trace, "usuariosInactivos.push", "call") = Len(batch)
                /\ Len(batch) > 0
                     => /\ Len(mails') = Len(mails) + 1
                        /\ mails'[Len(mails')].body = tabla(batch)]_vars

\* a sweep read Ana as stale, Ana was renamed, the sweep went on: the row is
\* still active, the audit log and the digest name Ana
C29_Witness ==
  \E id \in Racers :
    /\ running[id].kind = "sweep" /\ running[id].pc = "done"
    /\ Len(running[id].users) = 1
    /\ running[id].users[1].name = St(<<"Ana">>)
    /\ NameGone(St(<<"Ana">>))
    /\ usuarios[2][1] = St(<<"Eva">>)
    /\ usuarios[2][5] = B(TRUE)
    /\ CountIn(running[id].trace, "setValue(5)", "call") = 0
    /\ AuditRows(<<"USUARIO_INACTIVO">>, <<"Ana">>) = 1
    /\ MailsWith("html", "Ana") = 1

\* the lowest row whose Name cell equals name (0: none)
FirstRowNamed(name) ==
  IF NameGone(name) THEN 0
  ELSE CHOOSE r \in DOMAIN usuarios :
         /\ usuarios[r][1] = name
         /\ \A q \in DOMAIN usuarios : usuarios[q][1] = name => r <= q

\* C30: the registry write of the sweep for a stale user goes to the first
\* row (the lowest row index from 2 on) whose Name cell equals the user's
\* name, and it is one cell for each stale user: the Active cell of that
\* row. With two stale users of one name the first row is written twice and
\* the second row not at all.
C30_SweepWritesFirstMatch ==
  [][(last'.kind = "verificarUsuariosInactivos" /\ AllDated(UsersRead))
       => LET batch == StaleBatch(UsersRead, now')
              targets == {FirstRowNamed(batch[i].name) : i \in 1..Len(batch)}
          IN  /\ CountIn(last'.trace, "setValue(5)", "call") = Len(batch)
              /\ CountIn(last'.trace, "setValue(6)", "call") = 0
              /\ CountIn(last'.trace, "setValue(7)", "call") = 0
              /\ \A r \in DOMAIN usuarios :
                   /\ \A c \in (1..7) \ {5} : usuarios'[r][c] = usuarios[r][c]
                   /\ usuarios'[r][5] = IF r \in targets THEN St(<<"FALSE">>)
                                        ELSE usuarios[r][5]]_vars

\* two stale users named Ana, one sweep: two writes, both to row 2; row 3 is
\* still active
C30_Witness ==
  /\ last.kind = "verificarUsuariosInactivos"
  /\ 3 \in DOMAIN usuarios
  /\ usuarios[2][1] = usuarios[3][1]
  /\ Count("setValue(5)", "call") = 2
  /\ usuarios[2][5] = St(<<"FALSE">>)
  /\ usuarios[3][5] = B(TRUE)
  /\ usuarios[3][7] = D(Now0 - 15 * DayHours)

\* no user the sweep reads is active (none at all when Usuarios is missing)
NobodyActive == \A i \in 1..Len(UsersRead) : ~UsersRead[i].active

\* C31: the sweep degrades to a no-op. When the sheet Usuarios is missing
\* (getUsers returns an empty list) or no user is active, a sweep completes
\* without an error and writes no cell of the registry, appends no audit
\* row and calls no gateway.
C31_SweepNoOpWithoutActiveUsers ==
  [][(last'.kind = "verificarUsuariosInactivos" /\ NobodyActive)
       => /\ ~last'.thrown
          /\ last'.trace = <<[f |-> "verificarUsuariosInactivos", r |-> "call"]>>
          /\ usuarios' = usuarios
          /\ audit' = audit
          /\ mails' = mails
          /\ events' = events]_vars

\* a sweep over a registry whose only users are inactive and 15 days away:
\* nothing written, nothing sent
C31_Witness ==
  /\ last.kind = "verificarUsuariosInactivos"
  /\ "Usuarios" \in sheets
  /\ Len(UsersRead) >= 1
  /\ NobodyActive
  /\ \A r \in DOMAIN usuarios : usuarios[r][5] = B(FALSE)
  /\ \E r \in DOMAIN usuarios : usuarios[r][7] = D(Now0 - 15 * DayHours)
  /\ ~last.thrown
  /\ audit = <<>> /\ mails = <<>> /\ events = <<>>

\* C32: postcondition of the sweep. After a sweep that ran alone, every row
\* of the registry that was active and more than 7 days away when the run
\* started has its Active cell set to false; so every user the audit log and
\* the digest report as deactivated is inactive in the registry.
C32_StaleRowsInactiveAfterSweep ==
  [][last'.kind = "verificarUsuariosInactivos"
       => \A r \in DOMAIN usuarios :
            (Truthy(usuarios[r][1]) /\ IsStale(UserRecord(usuarios[r]), now'))
              => /\ ~ActiveCell(usuarios'[r][5])
                 /\ ~ActiveField(usuarios'[r][5])]_vars

\* the names of the users a sweep starting now, at clock today, reads as stale
StaleNames(today) ==
  {UsersRead[i].name : i \in {j \in 1..Len(UsersRead) : IsStale(UsersRead[j], today)}}

NoRuleMatched(trace) ==
  \A f \in Processors : CountIn(trace, f, "call") = 0

\* C34: frame of edit handling. The only cells of the registry an edit
\* invocation writes are columns 6 (dateRegistered) and 7 (lastAccess) of
\* the edited row, and only when the edit is classified as a new user; a
\* deactivation, a role change and an edit that matches no rule write no
\* cell, and an edit that matches no rule also appends no audit row and
\* calls no gateway.
C34_EditFrame ==
  [][(last'.kind = "onEdit" /\ last'.row \in Rows)
       => LET trace == last'.trace
              row == last'.row
              isNew == CountIn(trace, "processNewUser", "call") = 1
          IN  /\ \A r \in DOMAIN usuarios : r # row => usuarios'[r] = usuarios[r]
              /\ \A c \in 1..5 : usuarios'[row][c] = last'.data[c]
              /\ \A c \in {6, 7} :
                   usuarios'[row][c] # last'.data[c] => (isNew /\ usuarios'[row][c] = D(now'))
              /\ CountIn(trace, "setValue(5)", "call") = 0
              /\ ~isNew => /\ usuarios'[row] = last'.data
                           /\ CountIn(trace, "setValue(6)", "call") = 0
                           /\ CountIn(trace, "setValue(7)", "call") = 0
              /\ NoRuleMatched(trace)
                   => /\ trace = <<[f |-> "onEdit", r |-> "call"],
                                   [f |-> "handleUserEdit", r |-> "call"],
                                   [f |-> "getValues", r |-> "call"]>>
                      /\ audit' = audit
                      /\ mails' = mails
                      /\ events' = events]_vars

\* the group of a registered user was emptied: no rule matches, the row is
\* as typed, nothing logged, nothing sent
C34_Witness ==
  /\ EditedDataRow /\ last.col = 4 /\ DateRegisteredPresent
  /\ last.data[4] = Empty
  /\ NoRuleMatched(last.trace)
  /\ usuarios[last.row] = last.data
  /\ Len(audit) = last.audit0 /\ Len(mails) = last.mails0 /\ Len(events) = last.events0

\* the last invocation was a processor and appended an audit row whose
\* action is a
LoggedAction(a) ==
  /\ last.kind \in Processors
  /\ AuditAppended
  /\ audit[Len(audit)].action = a

\* the position of the first entry [f, r] in the trace of the last
\* invocation (0: none)
FirstIndex(f, r) ==
  LET is == {i \in 1..Len(last.trace) : last.trace[i].f = f /\ last.trace[i].r = r}
  IN  IF is = {} THEN 0 ELSE CHOOSE i \in is : \A j \in is : i <= j

\* C35 as stated: the action field of the audit log is truthful. Whenever a
\* processor appends a row whose action says that a notification was sent or
\* a meeting was created, the corresponding gateway call of that invocation
\* returned true.
C35_AuditActionTruthful ==
  /\ LoggedAction(<<"Email enviado">>) => Count("sendNotification", "true") = 1
  /\ LoggedAction(<<"Email y evento creados">>)
       => /\ Count("sendHtmlNotification", "true") = 1
          /\ Count("createCalendarEvent", "true") = 1

\* C35 amended: the action field names what the processor goes on to
\* request. Whenever a processor appends a row whose action says that a
\* notification was sent or a meeting was created, that invocation calls the
\* corresponding gateway exactly once, after the row is written; the call may
\* return false, and a mail or an event exists only when it returned true. A
\* row whose action says "log only" is followed by no gateway call.
C35_AuditActionNamesRequest ==
  /\ LoggedAction(<<"Email enviado">>)
       => /\ Calls("sendNotification") = 1
          /\ FirstIndex("appendRow", "call") < FirstIndex("sendNotification", "call")
          /\ MailSent <=> Count("sendNotification", "true") = 1
  /\ LoggedAction(<<"Email y evento creados">>)
       => /\ Calls("sendHtmlNotification") = 1 /\ Calls("createCalendarEvent") = 1
          /\ FirstIndex("appendRow", "call") < FirstIndex("sendHtmlNotification", "call")
          /\ FirstIndex("appendRow", "call") < FirstIndex("createCalendarEvent", "call")
          /\ MailSent <=> Count("sendHtmlNotification", "true") = 1
          /\ EventCreated <=> Count("createCalendarEvent", "true") = 1
  /\ LoggedAction(<<"Solo registro">>)
       => /\ \A g \in Gateways : Calls(g) = 0
          /\ Len(mails) = last.mails0

\* a deactivation with notifications switched off: the row says
\* "Email enviado", the gateway returned false, no mail left
C35_Witness ==
  /\ LoggedAction(<<"Email enviado">>)
  /\ last.kind = "processInactiveUser"
  /\ "Configuracion" \in sheets /\ config.notificarAdmins = St(<<"FALSE">>)
  /\ Calls("sendNotification") = 1
  /\ Count("sendNotification", "false") = 1
  /\ ~MailSent

\* C36: the registry reader (getUsers) and the edit classifier
\* (handleUserEdit) compute the same active flag for every raw value of the
\* Active cell: a row whose Active cell was edited and that the classifier
\* treated as active is read as active by the sweep, and the other way round.
C36_ReaderAndClassifierAgree ==
  /\ \A r \in DOMAIN usuarios : ActiveField(usuarios[r][5]) = ActiveCell(usuarios[r][5])
  /\ (last.kind = "onEdit" /\ last.col = 5 /\ last.row \in DOMAIN usuarios
        /\ Truthy(usuarios[last.row][1]))
       => LET users == getUsers(World(EnvOk))
          IN  users[IndexOfRow(last.row)].active = last.user.active

====
